---- MODULE Spec2Model ----
(***************************************************************************)
(* A model of the paraglider fleet emulator (src/paraglider_emulator.py):  *)
(* the RateLimiter, the MQTT connection pool, the single-instance lock     *)
(* file, the registration retry logic and the per-device flight state      *)
(* machine.  Each component has its own specification over the shared set  *)
(* of variables; a specification leaves the components it does not drive   *)
(* in their constructed state.                                             *)
(*                                                                         *)
(* Units: time in clock ticks (TicksPerSecond ticks to the second);        *)
(* altitude in decimetres; vertical speed (vario) in 0.1 m/s; speed in     *)
(* km/h; battery in 0.01 %.                                                *)
(***************************************************************************)
EXTENDS Integers, Sequences, FiniteSets, TLC

VARIABLES
    \* ---- time -----------------------------------------------------------
    clock,          \* time.time(), in ticks
    \* ---- RateLimiter ----------------------------------------------------
    max_requests,   \* RateLimiter.max_requests
    requests,       \* RateLimiter.requests: the recorded timestamps
    rl_lock,        \* RateLimiter.lock: the thread holding it, or 0
    rl_pc,          \* per thread: where it is inside wait_if_needed
    rl_wake,        \* per thread: when its time.sleep(sleep_time) ends
    rl_calls,       \* calls of wait_if_needed issued so far, all threads
    rl_seen,        \* per thread: len(self.requests) after pruning
    rl_log,         \* history: one record per completed wait_if_needed
    \* ---- MQTT connection pool -------------------------------------------
    mqtt_pool,      \* ParagliderSimulator.mqtt_pool: the connected handles
    pool_index,     \* ParagliderSimulator.pool_index
    mqtt_pool_lock, \* ParagliderSimulator.mqtt_pool_lock: its holder, or 0
    pool_pc,        \* per thread: where it is inside get_pool_client
    pool_served,    \* history: what each get_pool_client returned, in lock order
    \* ---- instance lock file ---------------------------------------------
    path_inode,     \* the inode lock_file_path names, or 0 when it does not exist
    next_inode,     \* the next inode the file system hands out
    inode_lock,     \* per inode: the process holding its fcntl lock, or 0
    inode_text,     \* per inode: the PID written in the file, or 0 when empty
    inst_pc,        \* per simulator process: where it is
    inst_fd,        \* per simulator process: self.lock_file's inode, or 0
    \* ---- registration ---------------------------------------------------
    safe_mode,      \* ParagliderSimulator.safe_mode
    registered_count, \* ParagliderSimulator.registered_count
    submitted,      \* per ordinal: times its simulate_paraglider was submitted
    device_infos,   \* len(device_infos): the credentials collected by run()
    failed_count,   \* run(): failed_count, once the futures are collected
    run_pc,         \* run(): "registering", then "monitoring"
    api_strict,     \* the API answers 400 to an identifier it has registered
    api_ids,        \* the identifiers the API has registered
    session_id,     \* per ordinal: device_id of its session, or <<>>
    reg_pc,         \* per registration worker: where register_and_start is
    reg_attempt,    \* per worker: the loop variable attempt
    reg_num,        \* per worker: device_num of the innermost register_device
    reg_depth,      \* per worker: nested register_device calls below the outer
    reg_wake,       \* per worker: when its backoff sleep ends
    reg_calls,      \* history, per worker: register_device calls made by the loop
    reg_fails,      \* history, per worker: how many of them returned None
    reg_sent,       \* history, per worker: requests sent by the current call
    reg_backoffs,   \* history, per worker: the backoff sleeps asked for
    \* ---- one device's flight --------------------------------------------
    thermals,       \* ParagliderSimulator.thermals near the device's site
    para,           \* the Paraglider: site, phase, altitude, speed, vario,
                    \* battery, thermal (index into thermals, or 0),
                    \* target_landing (whether one is set)
    active,         \* para.active: simulate_paraglider keeps ticking it
    ticks,          \* history: calls of update_paraglider_physics so far
    pos_integrated, \* history: the last tick ran the position integration
    touch_alt,      \* history: altitude the last LANDING tick integrated to
    takeoffs_since_landed, \* history: GROUND->TAKEOFF edges since last LANDED
    scan_dist,      \* history: the distance to each thermal as the last tick
                    \* measured it, or <<>> when it scanned none
    program,        \* which of the two emulators runs the device:
                    \* paraglider_emulator.py or scripts/paraglider_emulator.py
    flight_id,      \* para.flight_id, or None
    uuids,          \* the uuid4 values drawn for this device so far
    \* ---- telemetry workers ----------------------------------------------
    num_devices,    \* ParagliderSimulator.num_devices
    max_devices,    \* MAX_DEVICES_PER_INSTANCE as the environment sets it
    running,        \* ParagliderSimulator.running
    dev_client,     \* per device: para.mqtt_client, or NoClient
    wk_pc,          \* per device: where its simulate_paraglider worker is
    wk_timer,       \* per device: ticks left of its time.sleep(update_interval)
    wk_active,      \* per device: para.active
    wk_low,         \* per device: para.battery < 5 after its last physics tick
    wk_ticks,       \* history, per device: physics ticks its worker has run
    wk_pick,        \* per device: the local variable client of send_gps_update
    tp_lock,        \* ParagliderSimulator.lock: the device holding it, or 0
    tp_read,        \* per device: total_points_sent as its += 1 read it
    total_points_sent,     \* ParagliderSimulator.total_points_sent
    tp_age,         \* ticks since last_throughput_time, up to one second
    last_throughput_count, \* ParagliderSimulator.last_throughput_count
    current_throughput,    \* count_diff of the last sample taken
    pub_ok,         \* history: publish calls that returned MQTT_ERR_SUCCESS
    published_on,   \* history, per device: the handles it called publish on
    closed_by,      \* history, per device: the handles its worker disconnected
    connect_failed, \* history, per device: its dedicated connect raised
    sampled_age,    \* history: tp_age at the last throughput sample, or -1
    ticks_after_stop,  \* history, per device: ticks begun with running False
    sleeps_after_stop, \* history, per device: sleeps begun with running False
    \* ---- signed messages ------------------------------------------------
    provisioned,    \* history: the registration payloads built so far, each
                    \* with its registrant and the manufacturer secret used
    outbox,         \* per device: the envelope send_gps_update has built and
                    \* not yet handed to publish, or <<>>
    wire,           \* history: what was published: handle, topic, envelope
                    \* and the device whose worker published it
    \* ---- the orchestrator: main() and run() ----------------------------
    args,           \* the command line and the environment: devices,
                    \* duration, force, secret (one is configured), certs
    main_pc,        \* where the main thread is
    exit_status,    \* the status the process exited with, or -1
    main_lock,      \* this process holds the instance lock
    run_started,    \* history: run() has sent a request or launched a worker
    life,           \* history: the stages the run has entered, in order
    summaries,      \* history: times the results file was written
    main_closed,    \* history: the clients run() has disconnected
    grace_done,     \* history: run()'s time.sleep(3) has returned
    \* ---- headings -------------------------------------------------------
    heading,        \* para.heading, in whole degrees
    turn_log        \* history: the arguments and the result of the last call
                    \* of smooth_turn, if there was one

rlVars == <<max_requests, requests, rl_lock, rl_pc, rl_wake,
            rl_calls, rl_seen, rl_log>>

poolVars == <<mqtt_pool, pool_index, mqtt_pool_lock, pool_pc, pool_served>>

lockVars == <<path_inode, next_inode, inode_lock, inode_text, inst_pc, inst_fd>>

regVars == <<safe_mode, registered_count, submitted, device_infos,
             failed_count, run_pc, api_strict, api_ids, session_id,
             reg_pc, reg_attempt, reg_num, reg_depth, reg_wake, reg_calls,
             reg_fails, reg_sent, reg_backoffs>>

flightVars == <<thermals, para, active, ticks, pos_integrated, touch_alt,
                takeoffs_since_landed, scan_dist, program, flight_id, uuids>>

telVars == <<num_devices, max_devices, running, dev_client, wk_pc, wk_timer,
             wk_active, wk_low, wk_ticks, wk_pick, tp_lock, tp_read,
             total_points_sent, tp_age, last_throughput_count,
             current_throughput, pub_ok, published_on, closed_by,
             connect_failed, sampled_age, ticks_after_stop,
             sleeps_after_stop>>

msgVars == <<provisioned, outbox, wire>>

orchVars == <<args, main_pc, exit_status, main_lock, run_started, life,
              summaries, main_closed, grace_done>>

turnVars == <<heading, turn_log>>

vars == <<clock, rlVars, poolVars, lockVars, regVars, flightVars, telVars,
          msgVars, orchVars, turnVars>>

\* What an action of one component leaves alone.
exceptRL == <<poolVars, lockVars, regVars, flightVars, telVars, msgVars, orchVars,
    turnVars>>
exceptPool == <<rlVars, lockVars, regVars, flightVars, telVars, msgVars, orchVars,
    turnVars>>
exceptLock == <<rlVars, poolVars, regVars, flightVars, telVars, msgVars, orchVars,
    turnVars>>
exceptReg == <<poolVars, lockVars, flightVars, telVars, msgVars, orchVars,
    turnVars>>
exceptFlight == <<rlVars, poolVars, lockVars, regVars, telVars, msgVars, orchVars,
    turnVars>>
exceptTelMain == <<clock, rlVars, lockVars, regVars, flightVars, pool_pc, msgVars,
    turnVars>>
exceptTel == <<exceptTelMain, orchVars>>
exceptMain == <<clock, rlVars, poolVars, lockVars, regVars, flightVars, msgVars,
    turnVars>>
exceptTurn == <<clock, rlVars, poolVars, lockVars, regVars, flightVars, telVars,
    msgVars, orchVars>>
exceptMsg == <<clock, rlVars, poolVars, lockVars, regVars, flightVars, telVars, orchVars,
    turnVars>>

\* ------------------------------------------------------------------ bounds
TicksPerSecond == 2
HeadingStep == 5
MaxRate == 2
NumThreads == 3
MaxCalls == 3

MaxPool == 3
NumInstances == 3
NumRegWorkers == 1
NumOrdinals == 2
MaxDepth == 2
ThermalsPerSite == 2
MaxTicks == 4
NumDevices == 2
MaxTelTicks == 2
MaxWire == 2
MaxProvisioned == 2

MaxTime == 2 * TicksPerSecond + 1
Threads == 1..NumThreads
MaxPoolCalls == 2 * MaxPool + 1
Handles == 1..MaxPool
Instances == 1..NumInstances
Inodes == 1..NumInstances
None == 0
RegWorkers == 1..NumRegWorkers
Ordinals == 1..NumOrdinals
Devices == 1..NumDevices

\* ------------------------------------------------------- program constants
API_RATE_LIMIT == 10
max_retries == 3
DEFAULT_UPDATE_INTERVAL == 5
BATTERY_CUTOFF == 500     \* "if para.battery < 5", in hundredths of a percent
MAX_DEVICES_PER_INSTANCE == 500   \* int(os.getenv("MAX_DEVICES", "500"))
DEDICATED_LIMIT == 50     \* "if self.num_devices > 50" in create_paraglider
POOL_LIMIT == 500         \* "if self.num_devices > 500" in run
MAX_DURATION_MINUTES == 1440
LANDING_MAX_TURN == 15     \* self.smooth_turn(para.heading, bearing, 15)

\* FLYING_SITES: launch altitude and landing altitude, in decimetres.
FLYING_SITES ==
    << [name |-> "Chamonix",   alt |-> 24000, land_alt |-> 10500],
       [name |-> "Interlaken", alt |-> 18000, land_alt |-> 5700],
       [name |-> "Annecy",     alt |-> 14500, land_alt |-> 4500],
       [name |-> "Zermatt",    alt |-> 28000, land_alt |-> 16200],
       [name |-> "Dolomites",  alt |-> 22000, land_alt |-> 10000] >>

Phases == {"GROUND", "TAKEOFF", "CLIMBING", "GLIDING", "THERMALING",
           "LANDING", "LANDED"}

\* ----------------------------------------------------------------- time
\* Time passes: any statement, and any sleep, may take longer than asked.
Tick ==
    /\ clock < MaxTime
    /\ clock' = clock + 1
    /\ UNCHANGED <<rlVars, poolVars, lockVars, regVars, flightVars, telVars,
                   msgVars, orchVars, turnVars>>

\* ------------------------------------------------------------ RateLimiter
\* RateLimiter.__init__
InitRateLimiter(rates) ==
    /\ max_requests \in rates
    /\ requests = <<>>
    /\ rl_lock = 0
    /\ rl_pc = [t \in Threads |-> "idle"]
    /\ rl_wake = [t \in Threads |-> 0]
    /\ rl_calls = 0
    /\ rl_seen = [t \in Threads |-> 0]
    /\ rl_log = <<>>

\* self.requests = [t for t in self.requests if now - t < 1.0]
Prune(reqs, now) ==
    LET Recent(t) == now - t < TicksPerSecond
    IN  SelectSeq(reqs, Recent)

\* if len(self.requests) >= self.max_requests
LimitReachedOff(n, limit) == n > limit
LimitReached(n, limit) == n >= limit

\* sleep_time = 1.0 - (now - self.requests[0])
SleepTimeShort(reqs, now) == TicksPerSecond - (now - reqs[1]) - 1
SleepTime(reqs, now) == TicksPerSecond - (now - reqs[1])

\* A thread calls wait_if_needed and queues for the lock.
WaitCall(t) ==
    /\ rl_pc[t] = "idle"
    /\ rl_pc' = [rl_pc EXCEPT ![t] = "call"]
    /\ rl_calls' = rl_calls + 1
    /\ UNCHANGED <<max_requests, requests, rl_lock, rl_wake, rl_seen, rl_log>>

\* with self.lock: now = time.time(); prune; decide whether to sleep.
WaitEnter(t) ==
    /\ rl_pc[t] = "call"
    /\ rl_lock = 0
    /\ LET pruned == Prune(requests, clock)
           full == LimitReached(Len(pruned), max_requests)
           sleep_time == IF full THEN SleepTime(pruned, clock) ELSE 0
       IN  /\ rl_lock' = t
           /\ requests' = pruned
           /\ rl_seen' = [rl_seen EXCEPT ![t] = Len(pruned)]
           /\ IF full /\ sleep_time > 0
                 THEN /\ rl_pc' = [rl_pc EXCEPT ![t] = "sleep"]
                      /\ rl_wake' = [rl_wake EXCEPT ![t] = clock + sleep_time]
                 ELSE /\ rl_pc' = [rl_pc EXCEPT ![t] = "append"]
                      /\ UNCHANGED rl_wake
    /\ UNCHANGED <<max_requests, rl_calls, rl_log>>

\* time.sleep(sleep_time) returns, the lock still held.
WaitSleep(t) ==
    /\ rl_pc[t] = "sleep"
    /\ clock >= rl_wake[t]
    /\ rl_pc' = [rl_pc EXCEPT ![t] = "slept"]
    /\ UNCHANGED <<max_requests, requests, rl_lock, rl_wake,
                   rl_calls, rl_seen, rl_log>>

\* self.requests.append(time.time()); the lock is released; the call returns.
WaitAppend(t) ==
    /\ rl_pc[t] \in {"append", "slept"}
    /\ requests' = Append(requests, clock)
    /\ rl_lock' = 0
    /\ rl_pc' = [rl_pc EXCEPT ![t] = "idle"]
    /\ rl_log' = Append(rl_log,
                    [seen |-> rl_seen[t],
                     oldest |-> IF rl_seen[t] > 0 THEN requests[1] ELSE 0,
                     slept |-> rl_pc[t] = "slept", stamp |-> clock])
    /\ UNCHANGED <<max_requests, rl_wake, rl_calls, rl_seen>>

\* The whole of wait_if_needed, as run by thread t.
wait_if_needed(t) == WaitEnter(t) \/ WaitSleep(t) \/ WaitAppend(t)

\* -------------------------------------------------------- connection pool
\* The handles create_mqtt_pool managed to connect, in creation order: a
\* connection that fails is left out of the pool.
RECURSIVE SortedSeq(_)
SortedSeq(S) ==
    IF S = {} THEN <<>>
    ELSE LET m == CHOOSE x \in S : \A y \in S : x <= y
         IN  <<m>> \o SortedSeq(S \ {m})

InitPool(pools) ==
    /\ mqtt_pool \in pools
    /\ pool_index = 0
    /\ mqtt_pool_lock = 0
    /\ pool_pc = [t \in Threads |-> "idle"]
    /\ pool_served = <<>>

\* client = self.mqtt_pool[self.pool_index % len(self.mqtt_pool)]
PoolSlotShifted(index, size) == ((index + 1) % size) + 1
PoolSlot(index, size) == (index % size) + 1

\* A thread calls get_pool_client and queues for the pool mutex.
PoolCall(t) ==
    /\ pool_pc[t] = "idle"
    /\ pool_pc' = [pool_pc EXCEPT ![t] = "call"]
    /\ UNCHANGED <<mqtt_pool, pool_index, mqtt_pool_lock, pool_served>>

\* with self.mqtt_pool_lock:
PoolEnter(t) ==
    /\ pool_pc[t] = "call"
    /\ mqtt_pool_lock = 0
    /\ mqtt_pool_lock' = t
    /\ pool_pc' = [pool_pc EXCEPT ![t] = "locked"]
    /\ UNCHANGED <<mqtt_pool, pool_index, pool_served>>

\* The body of get_pool_client, the mutex released on return.
PoolReturn(t) ==
    /\ pool_pc[t] = "locked"
    /\ IF mqtt_pool = <<>>
          THEN /\ pool_served' = Append(pool_served, None)
               /\ UNCHANGED pool_index
          ELSE /\ pool_served' = Append(pool_served,
                                    mqtt_pool[PoolSlot(pool_index, Len(mqtt_pool))])
               /\ pool_index' = pool_index + 1
    /\ mqtt_pool_lock' = 0
    /\ pool_pc' = [pool_pc EXCEPT ![t] = "idle"]
    /\ UNCHANGED mqtt_pool

\* The whole of get_pool_client, as run by thread t.
get_pool_client(t) == PoolEnter(t) \/ PoolReturn(t)

\* ------------------------------------------------------ instance lock file
\* Before any simulator starts: no lock file.
InitLockFile ==
    /\ path_inode = 0
    /\ next_inode = 1
    /\ inode_lock = [i \in Inodes |-> 0]
    /\ inode_text = [i \in Inodes |-> 0]
    /\ inst_pc = [p \in Instances |-> "start"]
    /\ inst_fd = [p \in Instances |-> 0]

\* self.lock_file = open(self.lock_file_path, 'w'): the file the path names,
\* truncated, or a new file when the path names none.
AcquireOpen(p) ==
    /\ inst_pc[p] = "start"
    /\ IF path_inode = 0
          THEN /\ path_inode' = next_inode
               /\ next_inode' = next_inode + 1
               /\ inst_fd' = [inst_fd EXCEPT ![p] = next_inode]
               /\ UNCHANGED inode_text
          ELSE /\ inst_fd' = [inst_fd EXCEPT ![p] = path_inode]
               /\ inode_text' = [inode_text EXCEPT ![path_inode] = 0]
               /\ UNCHANGED <<path_inode, next_inode>>
    /\ inst_pc' = [inst_pc EXCEPT ![p] = "opened"]
    /\ UNCHANGED inode_lock

\* fcntl.lockf(self.lock_file, LOCK_EX | LOCK_NB): taken when no other
\* process holds a lock on that file, IOError otherwise (then sys.exit(1),
\* which closes the file).
AcquireLockf(p) ==
    /\ inst_pc[p] = "opened"
    /\ IF inode_lock[inst_fd[p]] = 0
          THEN /\ inode_lock' = [inode_lock EXCEPT ![inst_fd[p]] = p]
               /\ inst_pc' = [inst_pc EXCEPT ![p] = "locked"]
               /\ UNCHANGED inst_fd
          ELSE /\ inst_pc' = [inst_pc EXCEPT ![p] = "refused"]
               /\ inst_fd' = [inst_fd EXCEPT ![p] = 0]
               /\ UNCHANGED inode_lock
    /\ UNCHANGED <<path_inode, next_inode, inode_text>>

\* self.lock_file.write(f"{os.getpid()}\n") ...; flush(): the instance runs.
AcquireWrite(p) ==
    /\ inst_pc[p] = "locked"
    /\ inode_text' = [inode_text EXCEPT ![inst_fd[p]] = p]
    /\ inst_pc' = [inst_pc EXCEPT ![p] = "running"]
    /\ UNCHANGED <<path_inode, next_inode, inode_lock, inst_fd>>

\* _release_lock: fcntl.lockf(self.lock_file, fcntl.LOCK_UN)
ReleaseUnlock(p) ==
    /\ inst_pc[p] = "running"
    /\ inode_lock' = [inode_lock EXCEPT ![inst_fd[p]] = 0]
    /\ inst_pc' = [inst_pc EXCEPT ![p] = "unlocked"]
    /\ UNCHANGED <<path_inode, next_inode, inode_text, inst_fd>>

\* _release_lock: self.lock_file.close()
ReleaseClose(p) ==
    /\ inst_pc[p] = "unlocked"
    /\ inst_fd' = [inst_fd EXCEPT ![p] = 0]
    /\ inst_pc' = [inst_pc EXCEPT ![p] = "closed"]
    /\ UNCHANGED <<path_inode, next_inode, inode_lock, inode_text>>

\* _release_lock: os.unlink(self.lock_file_path), whatever file the path
\* names by now; an error (no such file) is swallowed.
ReleaseUnlink(p) ==
    /\ inst_pc[p] = "closed"
    /\ path_inode' = 0
    /\ inst_pc' = [inst_pc EXCEPT ![p] = "exited"]
    /\ UNCHANGED <<next_inode, inode_lock, inode_text, inst_fd>>

\* The whole of _acquire_lock and of _release_lock, as run by process p.
_acquire_lock(p) == AcquireOpen(p) \/ AcquireLockf(p) \/ AcquireWrite(p)
_release_lock(p) == ReleaseUnlock(p) \/ ReleaseClose(p) \/ ReleaseUnlink(p)

\* An instance has acquired the instance lock and not yet released it.
HoldsInstanceLock(p) == inst_pc[p] \in {"locked", "running"}

\* ----------------------------------------------------------- registration
\* What the registration API may answer to one POST: 200, 400, another
\* status, or no answer at all (connection error, timeout).
Answers == {"200", "400", "other", "error"}

\* new_device_num = device_num + 1000 + random.randint(0, 999)
Perturbations == {0, 999}

\* time.sleep(random.uniform(1.0, 2.0))
BackoffSleeps == {TicksPerSecond, 2 * TicksPerSecond}

\* timestamp = int(time.time() * 1000) % 100000
Timestamp(now) == (now * (1000 \div TicksPerSecond)) % 100000

\* device_id = f"EMU-PARA-{date}-{timestamp}-{device_num:04d}": within one
\* day the identifier is the pair of the two numbers, which the "-" between
\* them keeps apart.
DeviceId(now, device_num) == <<Timestamp(now), device_num>>

\* What an API that keeps its identifiers unique may answer: no 200 for an
\* identifier it has registered.  An API that is not strict answers anything.
ApiAnswersLoose(strict, id, ids, answer) == TRUE
ApiAnswers(strict, id, ids, answer) ==
    strict /\ id \in ids => answer # "200"

\* The interpreter's recursion limit, counted in nested register_device
\* calls: the call past it raises RecursionError, which the "except
\* Exception" of the caller turns into None.
RecursionNeverExhausted(depth) == FALSE
RecursionExhausted(depth) == depth >= MaxDepth

\* "if self.safe_mode: self.rate_limiter.wait_if_needed()"
LimiterNeverApplies(mode) == FALSE
LimiterApplies(mode) == mode

\* run(): nothing registered yet; worker w is handed ordinal w - 1.
InitRegistration(modes, apis) ==
    /\ safe_mode \in modes
    /\ registered_count = 0
    /\ submitted = [w \in Ordinals |-> 0]
    /\ device_infos = 0
    /\ failed_count = 0
    /\ run_pc = "registering"
    /\ api_strict \in apis
    /\ api_ids = {}
    /\ session_id = [w \in Ordinals |-> <<>>]
    /\ reg_pc = [w \in Ordinals |-> "loop"]
    /\ reg_attempt = [w \in Ordinals |-> 0]
    /\ reg_num = [w \in Ordinals |-> w - 1]
    /\ reg_depth = [w \in Ordinals |-> 0]
    /\ reg_wake = [w \in Ordinals |-> 0]
    /\ reg_calls = [w \in Ordinals |-> 0]
    /\ reg_fails = [w \in Ordinals |-> 0]
    /\ reg_sent = [w \in Ordinals |-> 0]
    /\ reg_backoffs = [w \in Ordinals |-> <<>>]

\* for attempt in range(max_retries)
MoreAttempts(attempt) == attempt < max_retries

\* if attempt < max_retries - 1: sleep before the next attempt
BackoffDueAlways(attempt) == TRUE
BackoffDue(attempt) == attempt < max_retries - 1

\* register_and_start: info = self.register_device(device_num); in safe mode
\* register_device starts with self.rate_limiter.wait_if_needed().
RegisterCall(w) ==
    /\ reg_pc[w] = "loop"
    /\ MoreAttempts(reg_attempt[w])
    /\ reg_pc' = [reg_pc EXCEPT ![w] = "request"]
    /\ reg_num' = [reg_num EXCEPT ![w] = w - 1]
    /\ reg_depth' = [reg_depth EXCEPT ![w] = 0]
    /\ reg_calls' = [reg_calls EXCEPT ![w] = @ + 1]
    /\ reg_sent' = [reg_sent EXCEPT ![w] = 0]
    /\ IF LimiterApplies(safe_mode) THEN WaitCall(w) ELSE UNCHANGED rlVars
    /\ UNCHANGED <<safe_mode, registered_count, submitted, device_infos,
                   failed_count, run_pc, api_strict, api_ids, session_id,
                   reg_attempt, reg_wake, reg_fails, reg_backoffs>>

\* register_device: requests.post(...) and what follows from its answer.
\*   200: the credentials are returned; register_and_start collects them,
\*        counts the device, creates its session and submits its worker.
\*   400: return self.register_device(new_device_num), which in safe mode
\*        waits on the rate limiter again; past the recursion limit the
\*        nested call raises and the caller returns None.
\*   else: None is returned through every nested call; register_and_start
\*        sleeps a backoff unless this was the last attempt.
\* stored: whether the API registered the identifier although the client got
\* no answer.
RegisterPost(w, answer, r, d, stored) ==
    /\ reg_pc[w] = "request"
    /\ rl_pc[w] = "idle"
    /\ LET id == DeviceId(clock, reg_num[w])
       IN  /\ ApiAnswers(api_strict, id, api_ids, answer)
           /\ api_ids' = IF answer = "200" \/ (answer = "error" /\ stored)
                            THEN api_ids \cup {id} ELSE api_ids
           /\ session_id' = IF answer = "200"
                               THEN [session_id EXCEPT ![w] = id]
                               ELSE session_id
    /\ reg_sent' = [reg_sent EXCEPT ![w] = @ + 1]
    /\ CASE answer = "200" ->
              /\ reg_pc' = [reg_pc EXCEPT ![w] = "registered"]
              /\ registered_count' = registered_count + 1
              /\ device_infos' = device_infos + 1
              /\ submitted' = [submitted EXCEPT ![w] = @ + 1]
              /\ UNCHANGED <<rlVars, reg_attempt, reg_num, reg_depth, reg_wake,
                             reg_fails, reg_backoffs>>
         [] answer = "400" /\ ~RecursionExhausted(reg_depth[w]) ->
              /\ reg_num' = [reg_num EXCEPT ![w] = @ + 1000 + r]
              /\ reg_depth' = [reg_depth EXCEPT ![w] = @ + 1]
              /\ IF LimiterApplies(safe_mode) THEN WaitCall(w)
                                              ELSE UNCHANGED rlVars
              /\ UNCHANGED <<registered_count, submitted, device_infos, reg_pc,
                             reg_attempt, reg_wake, reg_fails, reg_backoffs>>
         [] OTHER ->
              /\ reg_fails' = [reg_fails EXCEPT ![w] = @ + 1]
              /\ reg_depth' = [reg_depth EXCEPT ![w] = 0]
              /\ IF BackoffDue(reg_attempt[w])
                    THEN /\ reg_pc' = [reg_pc EXCEPT ![w] = "backoff"]
                         /\ reg_wake' = [reg_wake EXCEPT ![w] = clock + d]
                         /\ reg_backoffs' = [reg_backoffs EXCEPT ![w] = Append(@, d)]
                         /\ UNCHANGED reg_attempt
                    ELSE /\ reg_pc' = [reg_pc EXCEPT ![w] = "loop"]
                         /\ reg_attempt' = [reg_attempt EXCEPT ![w] = @ + 1]
                         /\ UNCHANGED <<reg_wake, reg_backoffs>>
              /\ UNCHANGED <<rlVars, registered_count, submitted, device_infos,
                             reg_num>>
    /\ UNCHANGED <<safe_mode, failed_count, run_pc, api_strict, reg_calls>>

\* The backoff sleep ends and the loop goes to its next attempt.
RegisterBackoff(w) ==
    /\ reg_pc[w] = "backoff"
    /\ clock >= reg_wake[w]
    /\ reg_pc' = [reg_pc EXCEPT ![w] = "loop"]
    /\ reg_attempt' = [reg_attempt EXCEPT ![w] = @ + 1]
    /\ UNCHANGED <<rlVars, safe_mode, registered_count, submitted, device_infos,
                   failed_count, run_pc, api_strict, api_ids, session_id,
                   reg_num, reg_depth, reg_wake, reg_calls, reg_fails, reg_sent,
                   reg_backoffs>>

\* The loop is over without a registration: "Failed to register device ...
\* after 3 attempts"; return False.
RegisterGiveUp(w) ==
    /\ reg_pc[w] = "loop"
    /\ ~MoreAttempts(reg_attempt[w])
    /\ reg_pc' = [reg_pc EXCEPT ![w] = "failed"]
    /\ UNCHANGED <<rlVars, safe_mode, registered_count, submitted, device_infos,
                   failed_count, run_pc, api_strict, api_ids, session_id,
                   reg_attempt, reg_num, reg_depth, reg_wake, reg_calls,
                   reg_fails, reg_sent, reg_backoffs>>

\* The whole of register_and_start(w - 1), register_device included.
register_and_start(w) ==
    \/ RegisterCall(w)
    \/ \E a \in Answers, r \in Perturbations, d \in BackoffSleeps,
          stored \in BOOLEAN : RegisterPost(w, a, r, d, stored)
    \/ RegisterBackoff(w)
    \/ RegisterGiveUp(w)

\* "for future in futures: if not future.result(): failed_count += 1"
FailedFuturesAll(pcs, launched) == Cardinality(launched)
FailedFutures(pcs, launched) ==
    Cardinality({w \in launched : pcs[w] = "failed"})

\* run(): every future of the launched ordinals has a result; the failures
\* are counted and the run goes on to its monitoring phase.
RunCollect(launched) ==
    /\ run_pc = "registering"
    /\ \A w \in launched : reg_pc[w] \in {"registered", "failed"}
    /\ failed_count' = FailedFutures(reg_pc, launched)
    /\ run_pc' = "monitoring"
    /\ UNCHANGED <<rlVars, safe_mode, registered_count, submitted, device_infos,
                   api_strict, api_ids, session_id, reg_pc, reg_attempt,
                   reg_num, reg_depth, reg_wake, reg_calls, reg_fails, reg_sent,
                   reg_backoffs>>

\* ------------------------------------------------------------ the flight
Max(a, b) == IF a >= b THEN a ELSE b
Min(a, b) == IF a <= b THEN a ELSE b

\* self.update_interval = DEFAULT_UPDATE_INTERVAL if safe_mode else 1
UpdateInterval == IF safe_mode THEN DEFAULT_UPDATE_INTERVAL ELSE 1

\* The random draws of one tick, at the ends of their ranges.
BatteryDrains == {1, 3}          \* random.uniform(0.01, 0.03)
TaxiSpeeds == {2, 5}             \* random.uniform(2, 5)
TakeoffGains == {1, 3}           \* random.uniform(1, 3)
TakeoffVarios == {15, 30}        \* random.uniform(1.5, 3.0)
ClimbSpeeds == {35, 45}          \* random.uniform(35, 45)
ClimbDecays == {1, 4}            \* random.uniform(0.1, 0.4)
Distances == {40, 200, 8000}     \* calculate_distance(...) to a thermal, m
ThermalGains == {6, 12}          \* random.uniform(0.6, 1.2), in tenths
ThermalSpeeds == {30, 40}        \* random.uniform(30, 40)
ExitSpeeds == {40, 50}           \* random.uniform(40, 50)
GlideVarios == {-18, -5}         \* random.uniform(-1.8, -0.5)
GlideSpeeds == {35, 50}          \* random.uniform(35, 50)
LiftVarios == {0, 10}            \* random.uniform(0, 1.0)
LandingBrakes == {1, 3}          \* random.uniform(1, 3)
LandingSinks == {1, 3}           \* random.uniform(0.1, 0.3)

\* generate_thermals(site): thermal k of the site, at the ends of the ranges
\* radius 50..300 m, strength 1.0..5.0 m/s, top = launch + 300..2000 m.
ThermalOf(site, k) ==
    IF k % 2 = 1
       THEN [radius |-> 300, strength |-> 50,
             top_altitude |-> FLYING_SITES[site].alt + 3000]
       ELSE [radius |-> 50, strength |-> 10,
             top_altitude |-> FLYING_SITES[site].alt + 20000]

ThermalField(site) == [k \in 1..ThermalsPerSite |-> ThermalOf(site, k)]

\* para.battery -= random.uniform(0.01, 0.03)
BatteryCharged(battery, drain) == battery + drain
BatteryAfter(battery, drain) == battery - drain

\* if para.altitude > para.site["alt"] + 50: para.phase = CLIMBING
AfterTakeoffGlide(altitude, site) ==
    IF altitude > FLYING_SITES[site].alt + 500 THEN "GLIDING" ELSE "TAKEOFF"
AfterTakeoff(altitude, site) ==
    IF altitude > FLYING_SITES[site].alt + 500 THEN "CLIMBING" ELSE "TAKEOFF"

\* for thermal in self.thermals: if dist < thermal.radius and
\* para.altitude < thermal.top_altitude: ... break -- the first one in list
\* order that qualifies, or 0.
Qualifies(k, dist, altitude) ==
    /\ dist[k] < thermals[k].radius
    /\ altitude < thermals[k].top_altitude

FirstThermal(dist, altitude) ==
    IF \E k \in DOMAIN thermals : Qualifies(k, dist, altitude)
       THEN CHOOSE k \in DOMAIN thermals :
               /\ Qualifies(k, dist, altitude)
               /\ \A j \in DOMAIN thermals :
                     Qualifies(j, dist, altitude) => k <= j
       ELSE 0

\* para.vario = max(-4, para.vario - random.uniform(0.1, 0.3))
LandingVarioFloored(vario, sink) == Max(0, vario - sink)
LandingVario(vario, sink) == Max(-40, vario - sink)

\* if para.altitude < para.site["land_alt"] + 20: para.vario = max(-2, vario)
GroundEffect(altitude, vario, site) ==
    IF altitude < FLYING_SITES[site].land_alt + 200 THEN Max(-20, vario) ELSE vario

\* if para.altitude <= para.site["land_alt"]
TouchdownExact(altitude, site) == altitude = FLYING_SITES[site].land_alt
Touchdown(altitude, site) == altitude <= FLYING_SITES[site].land_alt

\* What every tick does around its phase branch: the battery drain before,
\* the position integration ("if para.speed > 0") after.
Finish(next, drain) ==
    /\ para' = [next EXCEPT !.battery = BatteryAfter(para.battery, drain)]
    /\ pos_integrated' = (next.speed > 0)
    /\ ticks' = ticks + 1
    /\ UNCHANGED thermals

\* The two emulators: paraglider_emulator.py, whose Paraglider has no
\* flight_id, and scripts/paraglider_emulator.py, whose takeoff branch runs
\* "para.flight_id = str(uuid.uuid4())" and whose reset to GROUND runs
\* "para.flight_id = None".
Programs == {"emulator", "scripts_emulator"}
HasFlightId(prog) == prog = "scripts_emulator"

KeepFlightId == UNCHANGED <<program, flight_id, uuids>>
NewFlightId ==
    IF HasFlightId(program)
       THEN /\ uuids' = uuids + 1
            /\ flight_id' = uuids'
            /\ UNCHANGED program
       ELSE KeepFlightId
ResetFlightId ==
    IF HasFlightId(program)
       THEN /\ flight_id' = None
            /\ UNCHANGED <<program, uuids>>
       ELSE KeepFlightId

\* The "flight_id" entry of gps_data in send_gps_update, None where the
\* message has no such entry.
GpsFlightId == IF HasFlightId(program) THEN flight_id ELSE None

\* The takeoff branch of phase GROUND: "para.phase = FlightPhase.TAKEOFF;
\* para.speed = 25; para.vario = 2.0" (and a new heading).
LaunchedClimbing(p) ==
    [p EXCEPT !.phase = "TAKEOFF", !.speed = 25, !.vario = 20,
              !.altitude = p.altitude + 20 * UpdateInterval]
Launched(p) == [p EXCEPT !.phase = "TAKEOFF", !.speed = 25, !.vario = 20]

\* update_paraglider_physics, phase GROUND.
TickGround(drain, takeoff, taxi, taxi_speed) ==
    /\ para.phase = "GROUND"
    /\ IF takeoff
          THEN /\ Finish(Launched(para), drain)
               /\ takeoffs_since_landed' = takeoffs_since_landed + 1
          ELSE /\ Finish(IF taxi THEN [para EXCEPT !.speed = taxi_speed]
                                 ELSE para, drain)
               /\ UNCHANGED takeoffs_since_landed
    /\ UNCHANGED touch_alt
    /\ scan_dist' = <<>>
    /\ IF takeoff THEN NewFlightId ELSE KeepFlightId

\* update_paraglider_physics, phase TAKEOFF.
TickTakeoff(drain, gain, climb) ==
    /\ para.phase = "TAKEOFF"
    /\ LET altitude == para.altitude + climb * UpdateInterval
       IN  Finish([para EXCEPT !.speed = Min(40, para.speed + gain),
                               !.vario = climb,
                               !.altitude = altitude,
                               !.phase = AfterTakeoff(altitude, para.site)],
                  drain)
    /\ UNCHANGED <<touch_alt, takeoffs_since_landed>>
    /\ scan_dist' = <<>>
    /\ KeepFlightId

\* para.vario = max(-2, para.vario - random.uniform(0.1, 0.4))
ClimbVarioHeld(vario, decay) == vario
ClimbVario(vario, decay) == Max(-20, vario - decay)

\* update_paraglider_physics, phase CLIMBING.
TickClimbing(drain, speed, decay, dist, give_up) ==
    /\ para.phase = "CLIMBING"
    /\ LET vario == ClimbVario(para.vario, decay)
           altitude == para.altitude + vario * UpdateInterval
           found == FirstThermal(dist, altitude)
           moved == [para EXCEPT !.speed = speed, !.vario = vario,
                                 !.altitude = altitude]
       IN  Finish(IF found # 0
                     THEN [moved EXCEPT !.phase = "THERMALING", !.thermal = found]
                     ELSE IF vario < -10 \/ give_up
                             THEN [moved EXCEPT !.phase = "GLIDING"]
                             ELSE moved,
                  drain)
    /\ UNCHANGED <<touch_alt, takeoffs_since_landed>>
    /\ scan_dist' = dist
    /\ KeepFlightId

\* Leaving the thermal: "para.phase = FlightPhase.GLIDING; para.thermal =
\* None; para.speed = random.uniform(40, 50)".
LeftThermalBound(p, exit_speed) ==
    [p EXCEPT !.phase = "GLIDING", !.speed = exit_speed]
LeftThermal(p, exit_speed) ==
    [p EXCEPT !.phase = "GLIDING", !.thermal = 0, !.speed = exit_speed]

\* update_paraglider_physics, phase THERMALING ("if para.thermal:").
TickThermaling(drain, gain, speed, leave, exit_speed) ==
    /\ para.phase = "THERMALING"
    /\ IF para.thermal = 0
          THEN Finish(para, drain)
          ELSE LET vario == (thermals[para.thermal].strength * gain) \div 10
                   altitude == para.altitude + vario * UpdateInterval
                   moved == [para EXCEPT !.speed = speed, !.vario = vario,
                                         !.altitude = altitude]
               IN  Finish(IF altitude > thermals[para.thermal].top_altitude
                             \/ leave
                             THEN LeftThermal(moved, exit_speed)
                             ELSE moved,
                          drain)
    /\ UNCHANGED <<touch_alt, takeoffs_since_landed>>
    /\ scan_dist' = <<>>
    /\ KeepFlightId

\* update_paraglider_physics, phase GLIDING.
TickGliding(drain, sink, speed, lift, lift_vario) ==
    /\ para.phase = "GLIDING"
    /\ LET altitude == para.altitude + sink * UpdateInterval
           moved == [para EXCEPT
                        !.altitude = altitude,
                        !.speed = IF sink < -15 THEN Min(55, speed + 2) ELSE speed,
                        !.vario = IF lift THEN lift_vario ELSE sink]
       IN  Finish(IF altitude < FLYING_SITES[para.site].land_alt + 2000
                     THEN [moved EXCEPT !.phase = "LANDING",
                                        !.target_landing = TRUE]
                     ELSE moved,
                  drain)
    /\ UNCHANGED <<touch_alt, takeoffs_since_landed>>
    /\ scan_dist' = <<>>
    /\ KeepFlightId

\* The touchdown: "para.phase = FlightPhase.LANDED; para.altitude =
\* para.site["land_alt"]; para.speed = 0; para.vario = 0".
LandedWhereItFell(p) == [p EXCEPT !.phase = "LANDED", !.speed = 0, !.vario = 0]
Landed(p) ==
    [p EXCEPT !.phase = "LANDED",
              !.altitude = FLYING_SITES[p.site].land_alt,
              !.speed = 0, !.vario = 0]

\* update_paraglider_physics, phase LANDING.
TickLanding(drain, brake, sink) ==
    /\ para.phase = "LANDING"
    /\ LET vario == LandingVario(para.vario, sink)
           altitude == para.altitude + vario * UpdateInterval
           moved == [para EXCEPT
                        !.speed = Max(18, para.speed - brake),
                        !.vario = GroundEffect(altitude, vario, para.site),
                        !.altitude = altitude]
       IN  /\ touch_alt' = altitude
           /\ scan_dist' = <<>>
           /\ KeepFlightId
           /\ IF Touchdown(altitude, para.site)
                 THEN /\ Finish(Landed(moved), drain)
                      /\ takeoffs_since_landed' = 0
                 ELSE /\ Finish(moved, drain)
                      /\ UNCHANGED takeoffs_since_landed

\* update_paraglider_physics, phase LANDED.
TickLanded(drain, again) ==
    /\ para.phase = "LANDED"
    /\ Finish(IF again
                 THEN [para EXCEPT !.phase = "GROUND",
                                   !.altitude = FLYING_SITES[para.site].alt]
                 ELSE para,
              drain)
    /\ UNCHANGED <<touch_alt, takeoffs_since_landed>>
    /\ scan_dist' = <<>>
    /\ IF again THEN ResetFlightId ELSE KeepFlightId

\* The whole of update_paraglider_physics(para, dt = update_interval).
update_paraglider_physics ==
    \E drain \in BatteryDrains :
        \/ \E takeoff, taxi \in BOOLEAN, v \in TaxiSpeeds :
              TickGround(drain, takeoff, taxi, v)
        \/ \E gain \in TakeoffGains, climb \in TakeoffVarios :
              TickTakeoff(drain, gain, climb)
        \/ \E v \in ClimbSpeeds, decay \in ClimbDecays,
              dist \in [DOMAIN thermals -> Distances], give_up \in BOOLEAN :
              TickClimbing(drain, v, decay, dist, give_up)
        \/ \E gain \in ThermalGains, v \in ThermalSpeeds, leave \in BOOLEAN,
              exit_speed \in ExitSpeeds :
              TickThermaling(drain, gain, v, leave, exit_speed)
        \/ \E sink \in GlideVarios, v \in GlideSpeeds, lift \in BOOLEAN,
              lift_vario \in LiftVarios :
              TickGliding(drain, sink, v, lift, lift_vario)
        \/ \E brake \in LandingBrakes, sink \in LandingSinks :
              TickLanding(drain, brake, sink)
        \/ \E again \in BOOLEAN : TickLanded(drain, again)

\* create_paraglider: on the ground at the launch, altitude launch -20..+20 m,
\* battery 85..100 %.
Constructed(site) ==
    {[site |-> site, phase |-> "GROUND", altitude |-> FLYING_SITES[site].alt + da,
      speed |-> 0, vario |-> 0, battery |-> b, thermal |-> 0,
      target_landing |-> FALSE] : da \in {-200, 200}, b \in {8500, 10000}}

\* States a device is in later in its flights, close to where each phase
\* ends: every field but the altitude and the battery is redrawn or reset by
\* the tick that produced the state, and the altitude moves in steps that
\* random draws make arbitrarily fine.  The battery is down to 10 %, and
\* after a landing to 5.02 %, just above the cutoff.
\*   TAKEOFF 1 m below launch + 50 m, at full speed;
\*   THERMALING 2 m below the top of its thermal;
\*   GLIDING at or 0.5 m above landing + 200 m;
\*   LANDING 3 m above the landing altitude, speed at its floor of 18 and
\*   vario held at -2.0 by the ground effect;
\*   LANDED, as the touchdown leaves it.
InFlight(site) ==
    LET s == FLYING_SITES[site]
        base == [site |-> site, battery |-> 1000, thermal |-> 0,
                 target_landing |-> FALSE]
    IN  {[phase |-> "TAKEOFF", altitude |-> s.alt + 490, speed |-> 40,
          vario |-> v] @@ base : v \in TakeoffVarios}
        \cup
        {[phase |-> "THERMALING", altitude |-> ThermalOf(site, k).top_altitude - 20,
          speed |-> 30, vario |-> (ThermalOf(site, k).strength * 6) \div 10,
          thermal |-> k] @@ base : k \in 1..ThermalsPerSite}
        \cup
        {[phase |-> "GLIDING", altitude |-> s.land_alt + 2000 + da,
          speed |-> 35, vario |-> v] @@ base : da \in {0, 5}, v \in GlideVarios}
        \cup
        {[phase |-> "LANDING", altitude |-> s.land_alt + 30, speed |-> 18,
          vario |-> -20, target_landing |-> TRUE] @@ base}
        \cup
        {[phase |-> "LANDED", altitude |-> s.land_alt, speed |-> 0, vario |-> 0,
          battery |-> 502, target_landing |-> TRUE] @@ base}

Airborne(phase) == phase \in {"TAKEOFF", "CLIMBING", "THERMALING", "GLIDING", "LANDING"}

\* simulate_paraglider: one round of "while self.running and para.active":
\* the tick, then "if para.battery < 5: para.active = False".
\* (send_gps_update changes nothing of the flight.)
simulate_paraglider(tick) ==
    /\ active
    /\ tick
    /\ active' = ~(para'.battery < BATTERY_CUTOFF)

InitFlight(states, programs) ==
    /\ para \in states
    /\ program \in programs
    /\ uuids = IF HasFlightId(program) /\ para.phase # "GROUND" THEN 1 ELSE 0
    /\ flight_id = IF uuids = 0 THEN None ELSE uuids
    /\ thermals = ThermalField(para.site)
    /\ active = TRUE
    /\ ticks = 0
    /\ pos_integrated = FALSE
    /\ touch_alt = 0
    /\ takeoffs_since_landed = IF Airborne(para.phase) THEN 1 ELSE 0
    /\ scan_dist = <<>>

\* ------------------------------------------------------ telemetry workers
\* A device's own MQTT client is <<"own", d>>, a pool connection is
\* <<"pool", h>>, and NoClient is Python's None in para.mqtt_client.
NoClient == <<>>
OwnClient(d) == <<"own", d>>
PoolClients == {<<"pool", h>> : h \in Handles}

\* The device counts on both sides of the two thresholds, and the limit as
\* the environment variable MAX_DEVICES leaves it or doubles it.
DeviceCounts == {DEDICATED_LIMIT, DEDICATED_LIMIT + 1, POOL_LIMIT + 1}
DeviceLimits == {MAX_DEVICES_PER_INSTANCE, 2 * MAX_DEVICES_PER_INSTANCE}

\* __init__: "if num_devices > MAX_DEVICES_PER_INSTANCE: raise ValueError"
Accepted(n, limit) == n >= 1 /\ ~(n > limit)

\* create_paraglider: "if self.num_devices > 50: paraglider.mqtt_client = None"
UsesSharedPublishing(n) == n > DEDICATED_LIMIT

\* run: "if self.num_devices > 500: ... self.create_mqtt_pool(pool_size)"
CreatesPoolAlways(n) == TRUE
CreatesPool(n) == n > POOL_LIMIT

\* The pools run() can have built for n devices: none below the limit,
\* otherwise the connections of create_mqtt_pool that did not fail, one
\* pool of each size (which of the connections failed makes no difference
\* to a worker).
PoolsFor(n) ==
    IF CreatesPool(n) THEN {SortedSeq(1..k) : k \in 0..MaxPool} ELSE {<<>>}

\* simulate_paraglider: "while self.running and para.active"
KeepsGoingStopBlind(run, act) == act
KeepsGoing(run, act) == run /\ act

\* "with self.lock:" is entered when no thread holds the lock.
LockFreeAlways(holder) == TRUE
LockFree(holder) == holder = 0

\* "if time_diff >= 1.0"
SampleDue(age) == age >= TicksPerSecond

\* What a failed publish leaves of para.active: the except clause and the
\* else branch of send_gps_update only print.
PublishFailureDeactivates(act) == FALSE
PublishFailureKeeps(act) == act

\* "para.active = False" once the battery is under the cutoff.
DepletedStaysActive(act) == act
Depleted(act) == FALSE

\* The cleanup of simulate_paraglider: "if para.mqtt_client: loop_stop();
\* disconnect()" closes the device's own client and nothing else.
ClosesLastUsed(own, last) == IF last = NoClient THEN {} ELSE {last}
Closes(own, last) == IF own = NoClient THEN {} ELSE {own}

\* get_pool_client as send_gps_update sees it: None from an empty pool,
\* otherwise the connection in the round-robin slot.
PoolPick(pool, index) ==
    IF pool = <<>> THEN NoClient
    ELSE <<"pool", pool[PoolSlot(index, Len(pool))]>>

PublishResults == {"success", "rc", "raise"}
SleepTicks == UpdateInterval * TicksPerSecond
Saturate(n, cap) == IF n > cap THEN cap ELSE n

\* ParagliderSimulator.__init__ and the start of run(): the counters at
\* zero, the pool as run() built it, no worker launched yet.
InitTelemetry(counts, limits) ==
    /\ num_devices \in counts
    /\ max_devices \in limits
    /\ Accepted(num_devices, max_devices)
    /\ running = TRUE
    /\ dev_client = [d \in Devices |-> NoClient]
    /\ wk_pc = [d \in Devices |-> "unborn"]
    /\ wk_timer = [d \in Devices |-> 0]
    /\ wk_active = [d \in Devices |-> TRUE]
    /\ wk_low = [d \in Devices |-> FALSE]
    /\ wk_ticks = [d \in Devices |-> 0]
    /\ wk_pick = [d \in Devices |-> NoClient]
    /\ tp_lock = 0
    /\ tp_read = [d \in Devices |-> 0]
    /\ total_points_sent = 0
    /\ tp_age = 0
    /\ last_throughput_count = 0
    /\ current_throughput = <<0, 1>>
    /\ pub_ok = 0
    /\ published_on = [d \in Devices |-> {}]
    /\ closed_by = [d \in Devices |-> {}]
    /\ connect_failed = [d \in Devices |-> FALSE]
    /\ sampled_age = -1
    /\ ticks_after_stop = [d \in Devices |-> 0]
    /\ sleeps_after_stop = [d \in Devices |-> 0]

\* register_and_start(device_num) runs once per device number and returns
\* from its retry loop right after the one submit of simulate_paraglider.
SubmittedAgain(pc) == TRUE
NotYetSubmitted(pc) == pc = "unborn"

\* register_and_start for a device that registered: create_paraglider gives
\* it its transport, then simulate_paraglider is submitted to the executor.
\* connects says whether client.connect returned or raised.
Launch(d, connects) ==
    /\ NotYetSubmitted(wk_pc[d])
    /\ dev_client' = [dev_client EXCEPT ![d] =
          IF UsesSharedPublishing(num_devices) \/ ~connects
             THEN NoClient ELSE OwnClient(d)]
    /\ connect_failed' = [connect_failed EXCEPT ![d] =
          ~UsesSharedPublishing(num_devices) /\ ~connects]
    /\ wk_pc' = [wk_pc EXCEPT ![d] = "loop"]
    /\ UNCHANGED <<num_devices, max_devices, running, wk_timer, wk_active,
                   wk_low, wk_ticks, wk_pick, tp_lock, tp_read,
                   total_points_sent, tp_age, last_throughput_count,
                   current_throughput, pub_ok, published_on, closed_by,
                   sampled_age, ticks_after_stop, sleeps_after_stop>>
    /\ UNCHANGED <<mqtt_pool, pool_index, mqtt_pool_lock, pool_served>>

\* The loop condition of simulate_paraglider; when it fails the worker runs
\* the cleanup after the loop and returns.
WorkerLoop(d) ==
    /\ wk_pc[d] = "loop"
    /\ IF KeepsGoing(running, wk_active[d])
          THEN /\ wk_ticks[d] < MaxTelTicks
               /\ wk_pc' = [wk_pc EXCEPT ![d] = "tick"]
               /\ UNCHANGED closed_by
          ELSE /\ wk_pc' = [wk_pc EXCEPT ![d] = "exited"]
               /\ closed_by' = [closed_by EXCEPT ![d] =
                                   Closes(dev_client[d], wk_pick[d])]
    /\ UNCHANGED <<num_devices, max_devices, running, dev_client, wk_timer,
                   wk_active, wk_low, wk_ticks, wk_pick, tp_lock, tp_read,
                   total_points_sent, tp_age, last_throughput_count,
                   current_throughput, pub_ok, published_on,
                   connect_failed, sampled_age, ticks_after_stop,
                   sleeps_after_stop>>
    /\ UNCHANGED <<mqtt_pool, pool_index, mqtt_pool_lock, pool_served>>

\* self.update_paraglider_physics(para, update_interval): of the flight
\* state only whether the battery is now under the cutoff matters here.
WorkerTick(d, low) ==
    /\ wk_pc[d] = "tick"
    /\ wk_low' = [wk_low EXCEPT ![d] = low]
    /\ wk_ticks' = [wk_ticks EXCEPT ![d] = @ + 1]
    /\ ticks_after_stop' = [ticks_after_stop EXCEPT ![d] =
                               IF running THEN @ ELSE Saturate(@ + 1, 2)]
    /\ wk_pc' = [wk_pc EXCEPT ![d] = "send"]
    /\ UNCHANGED <<num_devices, max_devices, running, dev_client, wk_timer,
                   wk_active, wk_pick, tp_lock, tp_read, total_points_sent,
                   tp_age, last_throughput_count, current_throughput, pub_ok,
                   published_on, closed_by, connect_failed, sampled_age,
                   sleeps_after_stop>>
    /\ UNCHANGED <<mqtt_pool, pool_index, mqtt_pool_lock, pool_served>>

\* send_gps_update up to the publish call: the inactive early return, the
\* choice of client, and the return when there is none.
WorkerSend(d) ==
    /\ wk_pc[d] = "send"
    /\ IF ~wk_active[d]
          THEN /\ wk_pc' = [wk_pc EXCEPT ![d] = "check"]
               /\ UNCHANGED <<wk_pick, pool_index, pool_served>>
          ELSE IF dev_client[d] # NoClient
          THEN /\ wk_pick' = [wk_pick EXCEPT ![d] = dev_client[d]]
               /\ wk_pc' = [wk_pc EXCEPT ![d] = "publish"]
               /\ UNCHANGED <<pool_index, pool_served>>
          ELSE /\ mqtt_pool_lock = 0
               /\ wk_pick' = [wk_pick EXCEPT ![d] =
                                 PoolPick(mqtt_pool, pool_index)]
               /\ pool_index' = IF mqtt_pool = <<>> THEN pool_index
                                ELSE pool_index + 1
               /\ pool_served' = Append(pool_served,
                     IF mqtt_pool = <<>> THEN None
                     ELSE mqtt_pool[PoolSlot(pool_index, Len(mqtt_pool))])
               /\ wk_pc' = [wk_pc EXCEPT ![d] =
                     IF mqtt_pool = <<>> THEN "check" ELSE "publish"]
    /\ UNCHANGED <<num_devices, max_devices, running, dev_client, wk_timer,
                   wk_active, wk_low, wk_ticks, tp_lock, tp_read,
                   total_points_sent, tp_age, last_throughput_count,
                   current_throughput, pub_ok, published_on, closed_by,
                   connect_failed, sampled_age, ticks_after_stop,
                   sleeps_after_stop>>
    /\ UNCHANGED <<mqtt_pool, mqtt_pool_lock>>

\* client.publish(topic, ...): it returns success, returns another code, or
\* raises; the last two are only printed.
WorkerPublish(d, result) ==
    /\ wk_pc[d] = "publish"
    /\ published_on' = [published_on EXCEPT ![d] = @ \cup {wk_pick[d]}]
    /\ IF result = "success"
          THEN /\ pub_ok' = pub_ok + 1
               /\ wk_pc' = [wk_pc EXCEPT ![d] = "count"]
               /\ UNCHANGED wk_active
          ELSE /\ wk_active' = [wk_active EXCEPT ![d] = PublishFailureKeeps(@)]
               /\ wk_pc' = [wk_pc EXCEPT ![d] = "check"]
               /\ UNCHANGED pub_ok
    /\ UNCHANGED <<num_devices, max_devices, running, dev_client, wk_timer,
                   wk_low, wk_ticks, wk_pick, tp_lock, tp_read,
                   total_points_sent, tp_age, last_throughput_count,
                   current_throughput, closed_by, connect_failed,
                   sampled_age, ticks_after_stop, sleeps_after_stop>>
    /\ UNCHANGED <<mqtt_pool, pool_index, mqtt_pool_lock, pool_served>>

\* "with self.lock:" and the read of self.total_points_sent += 1.
CountEnter(d) ==
    /\ wk_pc[d] = "count"
    /\ LockFree(tp_lock)
    /\ tp_lock' = d
    /\ tp_read' = [tp_read EXCEPT ![d] = total_points_sent]
    /\ wk_pc' = [wk_pc EXCEPT ![d] = "counting"]
    /\ UNCHANGED <<num_devices, max_devices, running, dev_client, wk_timer,
                   wk_active, wk_low, wk_ticks, wk_pick, total_points_sent,
                   tp_age, last_throughput_count, current_throughput, pub_ok,
                   published_on, closed_by, connect_failed, sampled_age,
                   ticks_after_stop, sleeps_after_stop>>
    /\ UNCHANGED <<mqtt_pool, pool_index, mqtt_pool_lock, pool_served>>

\* The write of the += 1, the throughput sample, and the release.
CountWrite(d) ==
    /\ wk_pc[d] = "counting"
    /\ total_points_sent' = tp_read[d] + 1
    /\ IF SampleDue(tp_age)
          THEN /\ current_throughput' =
                      <<total_points_sent' - last_throughput_count, tp_age>>
               /\ last_throughput_count' = total_points_sent'
               /\ sampled_age' = tp_age
               /\ tp_age' = 0
          ELSE UNCHANGED <<current_throughput, last_throughput_count,
                           sampled_age, tp_age>>
    /\ tp_lock' = 0
    /\ wk_pc' = [wk_pc EXCEPT ![d] = "check"]
    /\ UNCHANGED <<num_devices, max_devices, running, dev_client, wk_timer,
                   wk_active, wk_low, wk_ticks, wk_pick, tp_read, pub_ok,
                   published_on, closed_by, connect_failed,
                   ticks_after_stop, sleeps_after_stop>>
    /\ UNCHANGED <<mqtt_pool, pool_index, mqtt_pool_lock, pool_served>>

\* "if para.battery < 5: para.active = False; break" and the cleanup that
\* follows the loop, or else time.sleep(update_interval).
WorkerCheck(d) ==
    /\ wk_pc[d] = "check"
    /\ IF wk_low[d]
          THEN /\ wk_active' = [wk_active EXCEPT ![d] = Depleted(@)]
               /\ wk_pc' = [wk_pc EXCEPT ![d] = "exited"]
               /\ closed_by' = [closed_by EXCEPT ![d] =
                                   Closes(dev_client[d], wk_pick[d])]
               /\ UNCHANGED <<wk_timer, sleeps_after_stop>>
          ELSE /\ wk_pc' = [wk_pc EXCEPT ![d] = "sleep"]
               /\ wk_timer' = [wk_timer EXCEPT ![d] = SleepTicks]
               /\ sleeps_after_stop' = [sleeps_after_stop EXCEPT ![d] =
                     IF running THEN @ ELSE Saturate(@ + 1, 2)]
               /\ UNCHANGED <<wk_active, closed_by>>
    /\ UNCHANGED <<num_devices, max_devices, running, dev_client, wk_low,
                   wk_ticks, wk_pick, tp_lock, tp_read, total_points_sent,
                   tp_age, last_throughput_count, current_throughput, pub_ok,
                   published_on, connect_failed, sampled_age,
                   ticks_after_stop>>
    /\ UNCHANGED <<mqtt_pool, pool_index, mqtt_pool_lock, pool_served>>

\* time.sleep(update_interval) returns.
WorkerWake(d) ==
    /\ wk_pc[d] = "sleep"
    /\ wk_timer[d] = 0
    /\ wk_pc' = [wk_pc EXCEPT ![d] = "loop"]
    /\ UNCHANGED <<num_devices, max_devices, running, dev_client, wk_timer,
                   wk_active, wk_low, wk_ticks, wk_pick, tp_lock, tp_read,
                   total_points_sent, tp_age, last_throughput_count,
                   current_throughput, pub_ok, published_on, closed_by,
                   connect_failed, sampled_age, ticks_after_stop,
                   sleeps_after_stop>>
    /\ UNCHANGED <<mqtt_pool, pool_index, mqtt_pool_lock, pool_served>>

\* run()'s "self.running = False" when the duration has expired, or the
\* signal handler's.
Stop ==
    /\ running
    /\ running' = FALSE
    /\ UNCHANGED <<num_devices, max_devices, dev_client, wk_pc, wk_timer,
                   wk_active, wk_low, wk_ticks, wk_pick, tp_lock, tp_read,
                   total_points_sent, tp_age, last_throughput_count,
                   current_throughput, pub_ok, published_on, closed_by,
                   connect_failed, sampled_age, ticks_after_stop,
                   sleeps_after_stop>>
    /\ UNCHANGED <<mqtt_pool, pool_index, mqtt_pool_lock, pool_served>>

\* One tick of time: every sleep in progress gets shorter and the time
\* since last_throughput_time grows (kept up to one second).
Elapse ==
    /\ wk_timer' = [d \in Devices |->
                       IF wk_timer[d] > 0 THEN wk_timer[d] - 1 ELSE 0]
    /\ tp_age' = Saturate(tp_age + 1, TicksPerSecond)
    /\ UNCHANGED <<num_devices, max_devices, running, dev_client, wk_pc,
                   wk_active, wk_low, wk_ticks, wk_pick, tp_lock, tp_read,
                   total_points_sent, last_throughput_count,
                   current_throughput, pub_ok, published_on, closed_by,
                   connect_failed, sampled_age, ticks_after_stop,
                   sleeps_after_stop>>
    /\ UNCHANGED <<mqtt_pool, pool_index, mqtt_pool_lock, pool_served>>

\* Every step the worker of device d can take.
simulate_worker(d) ==
    \/ WorkerLoop(d)
    \/ \E low \in BOOLEAN : WorkerTick(d, low)
    \/ WorkerSend(d)
    \/ \E result \in PublishResults : WorkerPublish(d, result)
    \/ CountEnter(d)
    \/ CountWrite(d)
    \/ WorkerCheck(d)
    \/ WorkerWake(d)

\* -------------------------------------------------------- signed messages
\* hmac.new(key, message, hashlib.sha256).hexdigest(): the digest stands for
\* the pair it was computed from, so that two digests are equal exactly when
\* key and message are.
Hmac(key, message) == <<"hmac-sha256", key, message>>

\* f"{a}:{b}:{c}"
Join(a, b, c) == <<a, ":", b, ":", c>>

\* The registrants of the repository: the emulator's register_device, the
\* device test's step1_factory_provisioning and the integration example's
\* provision_device.
Registrants == {"emulator", "device_test", "example"}
Manufacturers == {"DIGIFLY", "ACME"}
ManufacturerSecrets == {"mfg-secret-1", "mfg-secret-2"}
DeviceIds == {"PARA-0001", "PARA-0002"}
RandomSecrets == {"5f2a", "c41d"}

\* register_device: device_secret = f"secret_{device_id}_0"
EmulatorSecret(id) ==
    IF id = "PARA-0001" THEN "secret_PARA-0001_0" ELSE "secret_PARA-0002_0"

\* The message each registrant feeds to the HMAC.
TokenMessage(registrant, manufacturer, id, secret) ==
    IF registrant = "example"
       THEN Join(id, secret, manufacturer)
       ELSE Join(manufacturer, id, secret)

\* The registration payload a registrant builds, of which these four fields
\* matter; the emulator derives the device secret from the identifier, the
\* other two draw it.
Provision(registrant, key, manufacturer, id, drawn) ==
    LET secret == IF registrant = "emulator" THEN EmulatorSecret(id) ELSE drawn
    IN  [device_id |-> id,
         manufacturer |-> manufacturer,
         registration_token |->
             Hmac(key, TokenMessage(registrant, manufacturer, id, secret)),
         device_secret |-> secret]

\* One registrant builds one payload.
BuildPayload(registrant, key, manufacturer, id, drawn) ==
    /\ Cardinality(provisioned) < MaxProvisioned
    /\ provisioned' = provisioned \cup
          {[by |-> registrant, key |-> key,
            payload |-> Provision(registrant, key, manufacturer, id, drawn)]}
    /\ UNCHANGED <<outbox, wire>>

\* The session of device d as registration left it.
DeviceIdOf(d) == IF d = 1 THEN "PARA-0001" ELSE "PARA-0002"
DeviceSecretOf(d) == EmulatorSecret(DeviceIdOf(d))

\* gps_data, of which the device identifier, two readings and the nested
\* device_metadata are kept.
Altitudes == {12000, 12015}
BatteryLevels == {99, 98}
PhaseValues == {"ground", "gliding"}
GpsData(d, altitude, battery, phase) ==
    [device_id |-> DeviceIdOf(d), altitude |-> altitude,
     battery_level |-> battery, device_metadata |-> [phase |-> phase]]

\* json.dumps(gps_data, sort_keys=True, separators=(',', ':')): the pairs of
\* the dictionary in the order of their keys, the nested dictionary
\* likewise.
CanonicalTopLevel(data) ==
    << <<"altitude", data.altitude>>,
       <<"battery_level", data.battery_level>>,
       <<"device_id", data.device_id>> >>
Canonical(data) ==
    << <<"altitude", data.altitude>>,
       <<"battery_level", data.battery_level>>,
       <<"device_id", data.device_id>>,
       <<"device_metadata", << <<"phase", data.device_metadata.phase>> >> >> >>

\* message = {"data": gps_data, "signature": signature, "api_key": ...}
Envelope(d, data) ==
    [data |-> data,
     signature |-> Hmac(DeviceSecretOf(d), Canonical(data)),
     api_key |-> <<"api_key", DeviceIdOf(d)>>]

\* topic = f"gps/{para.device_id}/data"
Topic(id) == <<"gps", id, "data">>

InitMessages ==
    /\ provisioned = {}
    /\ outbox = [d \in Devices |-> <<>>]
    /\ wire = {}

\* send_gps_update from gps_data to message, in the worker of device d.
BuildEnvelope(d, altitude, battery, phase) ==
    /\ outbox[d] = <<>>
    /\ outbox' = [outbox EXCEPT ![d] =
                     Envelope(d, GpsData(d, altitude, battery, phase))]
    /\ UNCHANGED <<provisioned, wire>>

\* client.publish(topic, json.dumps(message), qos=1) on handle h, which is
\* the device's own client or one the pool handed out.
PublishEnvelope(d, h) ==
    /\ outbox[d] # <<>>
    /\ Cardinality(wire) < MaxWire
    /\ wire' = wire \cup {[handle |-> h, by |-> d,
                           topic |-> Topic(DeviceIdOf(d)),
                           envelope |-> outbox[d]]}
    /\ outbox' = [outbox EXCEPT ![d] = <<>>]
    /\ UNCHANGED provisioned

\* ------------------------------------------------------- the orchestrator
\* The command lines and environments tried: device counts and durations on
\* both sides of each limit, with and without --force, with and without a
\* manufacturer secret and the TLS certificates.
ArgSets ==
    [devices : {0, 1, MAX_DEVICES_PER_INSTANCE, MAX_DEVICES_PER_INSTANCE + 1},
     duration : {0, 1, MAX_DURATION_MINUTES, MAX_DURATION_MINUTES + 1},
     force : BOOLEAN, secret : BOOLEAN, certs : BOOLEAN]

\* main(): "if not args.force and args.devices > MAX_DEVICES_PER_INSTANCE"
OverLimitInMain(a, limit) == ~a.force /\ a.devices > limit

\* The checks of main() before it constructs the simulator, each of which
\* ends in sys.exit(1): the manufacturer secret, the device count, the
\* duration, the certificates.
MainRejects(a, limit) ==
    \/ ~a.secret
    \/ a.devices < 1
    \/ OverLimitInMain(a, limit)
    \/ a.duration < 1
    \/ a.duration > MAX_DURATION_MINUTES
    \/ ~a.certs

\* __init__: "if num_devices > MAX_DEVICES_PER_INSTANCE: raise ValueError",
\* whatever --force says, and the same for the duration.
InitRaisesNever(a, limit) == FALSE
InitRaises(a, limit) ==
    \/ a.devices > limit
    \/ a.duration > MAX_DURATION_MINUTES

\* The stages of a run.
Stages == <<"INIT", "REGISTERING", "RUNNING", "DRAINING", "TERMINATED">>

InitMain(argsets) ==
    /\ args \in argsets
    /\ main_pc = "main"
    /\ exit_status = -1
    /\ main_lock = FALSE
    /\ run_started = FALSE
    /\ life = <<>>
    /\ summaries = 0
    /\ main_closed = {}
    /\ grace_done = FALSE

\* main() up to "simulator = ParagliderSimulator(...)".
MainValidate ==
    /\ main_pc = "main"
    /\ IF MainRejects(args, max_devices)
          THEN /\ main_pc' = "exited"
               /\ exit_status' = 1
               /\ UNCHANGED life
          ELSE /\ main_pc' = "construct"
               /\ life' = Append(life, "INIT")
               /\ UNCHANGED exit_status
    /\ UNCHANGED <<args, main_lock, run_started, summaries, main_closed,
                   grace_done>>
    /\ UNCHANGED telVars

\* ParagliderSimulator.__init__: the ValueError, which main() turns into
\* sys.exit(1), or else the fields and the instance lock, which no other
\* instance holds here.
MainConstruct ==
    /\ main_pc = "construct"
    /\ IF InitRaises(args, max_devices)
          THEN /\ main_pc' = "exited"
               /\ exit_status' = 1
               /\ UNCHANGED <<main_lock, num_devices>>
          ELSE /\ main_pc' = "run"
               /\ main_lock' = TRUE
               /\ num_devices' = args.devices
               /\ UNCHANGED exit_status
    /\ UNCHANGED <<args, run_started, life, summaries, main_closed, grace_done>>
    /\ UNCHANGED <<max_devices, running, dev_client, wk_pc, wk_timer,
                   wk_active, wk_low, wk_ticks, wk_pick, tp_lock, tp_read,
                   total_points_sent, tp_age, last_throughput_count,
                   current_throughput, pub_ok, published_on, closed_by,
                   connect_failed, sampled_age, ticks_after_stop,
                   sleeps_after_stop>>

\* run() up to the submission of the first registration.
MainRunStarts ==
    /\ main_pc = "run"
    /\ main_pc' = "registering"
    /\ run_started' = TRUE
    /\ life' = Append(life, "REGISTERING")
    /\ UNCHANGED <<args, exit_status, main_lock, summaries, main_closed,
                   grace_done>>
    /\ UNCHANGED telVars

\* run(): the futures of the registrations are collected; monitoring begins.
MainMonitors ==
    /\ main_pc = "registering"
    /\ main_pc' = "monitoring"
    /\ life' = Append(life, "RUNNING")
    /\ UNCHANGED <<args, exit_status, main_lock, run_started, summaries,
                   main_closed, grace_done>>
    /\ UNCHANGED telVars

\* run(): the monitoring loop ends with the duration; "self.running = False".
MainStops ==
    /\ main_pc = "monitoring"
    /\ Stop
    /\ main_pc' = "stopping"
    /\ life' = Append(life, "DRAINING")
    /\ UNCHANGED <<args, exit_status, main_lock, run_started, summaries,
                   main_closed, grace_done>>

\* The clients run() disconnects: para.mqtt_client of every paraglider in
\* self.paragliders that has one, and every connection of the pool.
ClientsToClose ==
    ({dev_client[d] : d \in {e \in Devices : wk_pc[e] # "unborn"}}
        \ {NoClient})
       \cup {<<"pool", mqtt_pool[i]>> : i \in DOMAIN mqtt_pool}

\* run(): simulation_executor.shutdown(wait=False) and the two disconnect
\* loops.
MainDisconnects ==
    /\ main_pc = "stopping"
    /\ main_closed' = ClientsToClose
    /\ main_pc' = "grace"
    /\ UNCHANGED <<args, exit_status, main_lock, run_started, life, summaries,
                   grace_done>>
    /\ UNCHANGED telVars

\* run(): time.sleep(3)
MainGrace ==
    /\ main_pc = "grace"
    /\ grace_done' = TRUE
    /\ main_pc' = "summary"
    /\ UNCHANGED <<args, exit_status, main_lock, run_started, life, summaries,
                   main_closed>>
    /\ UNCHANGED telVars

\* run(): the final statistics and paraglider_simulation_results.json.
MainSummary ==
    /\ main_pc = "summary"
    /\ summaries' = summaries + 1
    /\ life' = Append(life, "TERMINATED")
    /\ main_pc' = "done"
    /\ UNCHANGED <<args, exit_status, main_lock, run_started, main_closed,
                   grace_done>>
    /\ UNCHANGED telVars

\* run() and main() return; the atexit hook _cleanup releases the lock.
MainReturns ==
    /\ main_pc = "done"
    /\ main_pc' = "exited"
    /\ exit_status' = 0
    /\ main_lock' = FALSE
    /\ UNCHANGED <<args, run_started, life, summaries, main_closed, grace_done>>
    /\ UNCHANGED telVars

\* _signal_handler, for SIGINT and SIGTERM alike, once __init__ has
\* installed it: "self.running = False; self._cleanup(); sys.exit(0)".
\* SystemExit is caught neither by run() nor by main().
SignalHandler ==
    /\ main_pc \in {"run", "registering", "monitoring", "stopping", "grace",
                    "summary", "done"}
    /\ running' = FALSE
    /\ main_lock' = FALSE
    /\ main_pc' = "exited"
    /\ exit_status' = 0
    /\ UNCHANGED <<args, run_started, life, summaries, main_closed, grace_done>>
    /\ UNCHANGED <<num_devices, max_devices, dev_client, wk_pc, wk_timer,
                   wk_active, wk_low, wk_ticks, wk_pick, tp_lock, tp_read,
                   total_points_sent, tp_age, last_throughput_count,
                   current_throughput, pub_ok, published_on, closed_by,
                   connect_failed, sampled_age, ticks_after_stop,
                   sleeps_after_stop>>

\* ---------------------------------------------------------------- headings
\* Headings in whole degrees, targets and bearings on a grid of HeadingStep
\* degrees, the limits a caller may pass, and the turbulence of a LANDING
\* tick at the ends and in the middle of random.uniform(-5, 5).
Headings == 0..359
Bearings == {h \in Headings : h % HeadingStep = 0}
MaxTurns == {1, 7, LANDING_MAX_TURN, 180, 200}
Turbulence == {-5, 0, 5}

Abs(x) == IF x < 0 THEN 0 - x ELSE x

\* smooth_turn: "if diff > 180: diff -= 360 elif diff < -180: diff += 360"
NormalizeNone(diff) == diff
Normalize(diff) ==
    IF diff > 180 THEN diff - 360
    ELSE IF diff < -180 THEN diff + 360
    ELSE diff

\* smooth_turn: "if abs(diff) > max_turn:
\*                   diff = max_turn if diff > 0 else -max_turn"
Limit(diff, max_turn) ==
    IF Abs(diff) > max_turn
       THEN IF diff > 0 THEN max_turn ELSE 0 - max_turn
       ELSE diff

smooth_turn(current_heading, target_heading, max_turn) ==
    (current_heading
        + Limit(Normalize(target_heading - current_heading), max_turn)) % 360

InitTurn(headings) ==
    /\ heading \in headings
    /\ turn_log = <<>>

\* A call "para.heading = self.smooth_turn(para.heading, target, max_turn)".
CallSmoothTurn(target, max_turn) ==
    /\ turn_log = <<>>
    /\ turn_log' = <<[current |-> heading, target |-> target,
                      max_turn |-> max_turn,
                      returned |-> smooth_turn(heading, target, max_turn),
                      phase |-> "any"]>>
    /\ heading' = turn_log'[1].returned

\* The heading of a LANDING tick with a landing target: the turn toward the
\* bearing of the target, then the turbulence, then "% 360".
LandingHeading(bearing, gust) ==
    /\ turn_log = <<>>
    /\ turn_log' = <<[current |-> heading, target |-> bearing,
                      max_turn |-> LANDING_MAX_TURN,
                      returned |-> smooth_turn(heading, bearing, LANDING_MAX_TURN),
                      phase |-> "LANDING"]>>
    /\ heading' = (turn_log'[1].returned + gust) % 360

\* ------------------------------------------- specification: RateLimiter
\* The constructed state of the components a specification does not drive.
PoolBuilt == InitPool({<<>>})
LimiterBuilt == InitRateLimiter({API_RATE_LIMIT})
RegistrationBuilt == InitRegistration({TRUE}, {TRUE})
FlightBuilt == InitFlight({CHOOSE p \in Constructed(1) : TRUE}, {"emulator"})
TelemetryBuilt == InitTelemetry({DEDICATED_LIMIT}, {MAX_DEVICES_PER_INSTANCE})
MessagesBuilt == InitMessages
TurnBuilt == InitTurn({0})
MainBuilt == InitMain({CHOOSE a \in ArgSets : ~MainRejects(a, MAX_DEVICES_PER_INSTANCE)})

InitRL ==
    /\ clock = 0
    /\ InitRateLimiter(1..MaxRate)
    /\ PoolBuilt
    /\ InitLockFile
    /\ RegistrationBuilt
    /\ FlightBuilt
    /\ TelemetryBuilt
    /\ MessagesBuilt
    /\ MainBuilt
    /\ TurnBuilt

CallRL == \E t \in Threads : rl_calls < MaxCalls /\ WaitCall(t) /\ UNCHANGED <<clock, exceptRL>>
EnterRL == \E t \in Threads : WaitEnter(t) /\ UNCHANGED <<clock, exceptRL>>
SleepRL == \E t \in Threads : WaitSleep(t) /\ UNCHANGED <<clock, exceptRL>>
AppendRL == \E t \in Threads : WaitAppend(t) /\ UNCHANGED <<clock, exceptRL>>

NextRL == Tick \/ CallRL \/ EnterRL \/ SleepRL \/ AppendRL

SpecRL == InitRL /\ [][NextRL]_vars

\* --------------------------------------- specification: connection pool
InitPoolSpec ==
    /\ clock = 0
    /\ LimiterBuilt
    /\ InitPool({SortedSeq(S) : S \in SUBSET Handles})
    /\ InitLockFile
    /\ RegistrationBuilt
    /\ FlightBuilt
    /\ TelemetryBuilt
    /\ MessagesBuilt
    /\ MainBuilt
    /\ TurnBuilt

CallPool ==
    \E t \in Threads :
        /\ Len(pool_served) + Cardinality({u \in Threads : pool_pc[u] # "idle"})
              < MaxPoolCalls
        /\ PoolCall(t)
        /\ UNCHANGED <<clock, exceptPool>>
EnterPool == \E t \in Threads : PoolEnter(t) /\ UNCHANGED <<clock, exceptPool>>
ReturnPool == \E t \in Threads : PoolReturn(t) /\ UNCHANGED <<clock, exceptPool>>

NextPool == CallPool \/ EnterPool \/ ReturnPool

SpecPool == InitPoolSpec /\ [][NextPool]_vars

\* ------------------------------------------ specification: instance lock
InitLockSpec ==
    /\ clock = 0
    /\ LimiterBuilt
    /\ PoolBuilt
    /\ InitLockFile
    /\ RegistrationBuilt
    /\ FlightBuilt
    /\ TelemetryBuilt
    /\ MessagesBuilt
    /\ MainBuilt
    /\ TurnBuilt

OpenLock == \E p \in Instances : AcquireOpen(p) /\ UNCHANGED <<clock, exceptLock>>
LockfLock == \E p \in Instances : AcquireLockf(p) /\ UNCHANGED <<clock, exceptLock>>
WriteLock == \E p \in Instances : AcquireWrite(p) /\ UNCHANGED <<clock, exceptLock>>
UnlockLock == \E p \in Instances : ReleaseUnlock(p) /\ UNCHANGED <<clock, exceptLock>>
CloseLock == \E p \in Instances : ReleaseClose(p) /\ UNCHANGED <<clock, exceptLock>>
UnlinkLock == \E p \in Instances : ReleaseUnlink(p) /\ UNCHANGED <<clock, exceptLock>>

NextLock == OpenLock \/ LockfLock \/ WriteLock \/ UnlockLock \/ CloseLock \/ UnlinkLock

SpecLock == InitLockSpec /\ [][NextLock]_vars

\* -------------------------------------------- specification: registration
InitReg ==
    /\ clock = 0
    /\ InitRateLimiter(1..MaxRate)
    /\ PoolBuilt
    /\ InitLockFile
    /\ InitRegistration(BOOLEAN, BOOLEAN)
    /\ FlightBuilt
    /\ TelemetryBuilt
    /\ MessagesBuilt
    /\ MainBuilt
    /\ TurnBuilt

CallReg == \E w \in RegWorkers : RegisterCall(w) /\ UNCHANGED <<clock, exceptReg>>
PostReg ==
    \E w \in RegWorkers, a \in Answers, r \in Perturbations,
       d \in BackoffSleeps, stored \in BOOLEAN :
        RegisterPost(w, a, r, d, stored) /\ UNCHANGED <<clock, exceptReg>>
BackoffReg == \E w \in RegWorkers : RegisterBackoff(w) /\ UNCHANGED <<clock, exceptReg>>
GiveUpReg == \E w \in RegWorkers : RegisterGiveUp(w) /\ UNCHANGED <<clock, exceptReg>>

NextReg ==
    \/ Tick
    \/ EnterRL \/ SleepRL \/ AppendRL
    \/ CallReg \/ PostReg \/ BackoffReg \/ GiveUpReg

SpecReg == InitReg /\ [][NextReg]_vars

\* ------------------------------------- specification: registration phase
\* The registration phase of run() for NumOrdinals devices outside safe mode:
\* the workers of all ordinals run concurrently against one API, then run()
\* collects their futures.  A request the client gets no answer to is one
\* the API has not registered.
InitRun ==
    /\ clock = 0
    /\ LimiterBuilt
    /\ PoolBuilt
    /\ InitLockFile
    /\ InitRegistration({FALSE}, BOOLEAN)
    /\ FlightBuilt
    /\ TelemetryBuilt
    /\ MessagesBuilt
    /\ MainBuilt
    /\ TurnBuilt

CallRun == \E w \in Ordinals : RegisterCall(w) /\ UNCHANGED <<clock, exceptReg>>
PostRun ==
    \E w \in Ordinals, a \in Answers, r \in Perturbations, d \in BackoffSleeps :
        RegisterPost(w, a, r, d, FALSE) /\ UNCHANGED <<clock, exceptReg>>
BackoffRun == \E w \in Ordinals : RegisterBackoff(w) /\ UNCHANGED <<clock, exceptReg>>
GiveUpRun == \E w \in Ordinals : RegisterGiveUp(w) /\ UNCHANGED <<clock, exceptReg>>
CollectRun == RunCollect(Ordinals) /\ UNCHANGED <<clock, exceptReg>>

NextRun ==
    \/ Tick
    \/ CallRun \/ PostRun \/ BackoffRun \/ GiveUpRun \/ CollectRun

SpecRun == InitRun /\ [][NextRun]_vars

\* -------------------------------------------------- specification: flight
\* One device, at any site and either update interval, ticked MaxTicks times
\* from its construction or from later in its flights.
Sites == DOMAIN FLYING_SITES

Init ==
    /\ clock = 0
    /\ LimiterBuilt
    /\ PoolBuilt
    /\ InitLockFile
    /\ InitRegistration(BOOLEAN, {TRUE})
    /\ InitFlight(UNION {Constructed(site) \cup InFlight(site) : site \in Sites},
                  Programs)
    /\ TelemetryBuilt
    /\ MessagesBuilt
    /\ MainBuilt
    /\ TurnBuilt

GroundTick ==
    \E drain \in BatteryDrains, takeoff, taxi \in BOOLEAN, v \in TaxiSpeeds :
        ticks < MaxTicks /\ simulate_paraglider(TickGround(drain, takeoff, taxi, v))
           /\ UNCHANGED <<clock, exceptFlight>>
TakeoffTick ==
    \E drain \in BatteryDrains, gain \in TakeoffGains, climb \in TakeoffVarios :
        ticks < MaxTicks /\ simulate_paraglider(TickTakeoff(drain, gain, climb))
           /\ UNCHANGED <<clock, exceptFlight>>
ClimbingTick ==
    \E drain \in BatteryDrains, v \in ClimbSpeeds, decay \in ClimbDecays,
       dist \in [DOMAIN thermals -> Distances], give_up \in BOOLEAN :
        ticks < MaxTicks /\ simulate_paraglider(TickClimbing(drain, v, decay, dist, give_up))
           /\ UNCHANGED <<clock, exceptFlight>>
ThermalingTick ==
    \E drain \in BatteryDrains, gain \in ThermalGains, v \in ThermalSpeeds,
       leave \in BOOLEAN, exit_speed \in ExitSpeeds :
        ticks < MaxTicks /\ simulate_paraglider(TickThermaling(drain, gain, v, leave, exit_speed))
           /\ UNCHANGED <<clock, exceptFlight>>
GlidingTick ==
    \E drain \in BatteryDrains, sink \in GlideVarios, v \in GlideSpeeds,
       lift \in BOOLEAN, lift_vario \in LiftVarios :
        ticks < MaxTicks /\ simulate_paraglider(TickGliding(drain, sink, v, lift, lift_vario))
           /\ UNCHANGED <<clock, exceptFlight>>
LandingTick ==
    \E drain \in BatteryDrains, brake \in LandingBrakes, sink \in LandingSinks :
        ticks < MaxTicks /\ simulate_paraglider(TickLanding(drain, brake, sink))
           /\ UNCHANGED <<clock, exceptFlight>>
LandedTick ==
    \E drain \in BatteryDrains, again \in BOOLEAN :
        ticks < MaxTicks /\ simulate_paraglider(TickLanded(drain, again))
           /\ UNCHANGED <<clock, exceptFlight>>

Next ==
    \/ GroundTick \/ TakeoffTick \/ ClimbingTick \/ ThermalingTick
    \/ GlidingTick \/ LandingTick \/ LandedTick

Spec == Init /\ [][Next]_vars

\* ------------------------------------------------- specification: landing
\* The final glide of one device, from just above landing + 200 m down to
\* the touchdown, at either update interval and with no bound on the number
\* of ticks other than the battery cutoff.  simulate_paraglider ticks the
\* device every update_interval seconds for as long as it is active, hence
\* the weak fairness.
\* The battery drain and the braking are held at the upper ends of their
\* ranges: neither enters the vertical motion, and the larger drain leaves
\* the worker the fewest ticks before the battery cutoff stops it.
HardDrain == {d \in BatteryDrains : \A e \in BatteryDrains : e <= d}
HardBrake == {b \in LandingBrakes : \A c \in LandingBrakes : c <= b}

FinalGlide(site) == {p \in InFlight(site) : p.phase = "GLIDING"}

InitLanding ==
    /\ clock = 0
    /\ LimiterBuilt
    /\ PoolBuilt
    /\ InitLockFile
    /\ InitRegistration(BOOLEAN, {TRUE})
    /\ InitFlight(FinalGlide(1), {"emulator"})
    /\ TelemetryBuilt
    /\ MessagesBuilt
    /\ MainBuilt
    /\ TurnBuilt

GlideDown ==
    \E drain \in HardDrain, sink \in GlideVarios, v \in GlideSpeeds,
       lift \in BOOLEAN, lift_vario \in LiftVarios :
        simulate_paraglider(TickGliding(drain, sink, v, lift, lift_vario))
           /\ UNCHANGED <<clock, exceptFlight>>
Descend ==
    \E drain \in HardDrain, brake \in HardBrake, sink \in LandingSinks :
        simulate_paraglider(TickLanding(drain, brake, sink))
           /\ UNCHANGED <<clock, exceptFlight>>

NextLanding == GlideDown \/ Descend

SpecLanding == InitLanding /\ [][NextLanding]_vars /\ WF_vars(NextLanding)

\* -------------------------------------------------- specification: ascent
\* One device from its takeoff up through the climb and the thermals to
\* the glide, at the 5 s interval, with no bound on the number of ticks.
\* simulate_paraglider ticks the device every update_interval seconds for
\* as long as it is active, hence the weak fairness.
\* The draws that do not enter the vertical motion (battery drain, speeds)
\* are held at the upper ends of their ranges.  The device starts right
\* after a takeoff from above the launch, or circling 200 m below the top
\* of a thermal, with a full battery.
HardGain == {g \in TakeoffGains : \A h \in TakeoffGains : h <= g}
HardClimbSpeed == {v \in ClimbSpeeds : \A w \in ClimbSpeeds : w <= v}
HardThermalSpeed == {v \in ThermalSpeeds : \A w \in ThermalSpeeds : w <= v}
HardExitSpeed == {v \in ExitSpeeds : \A w \in ExitSpeeds : w <= v}

Charged(site) ==
    {p \in Constructed(site) :
        p.battery = 10000 /\ p.altitude > FLYING_SITES[site].alt}

Ascending(site) ==
    {Launched(p) : p \in Charged(site)}
    \cup
    {[p EXCEPT !.phase = "THERMALING", !.thermal = k, !.speed = 30,
               !.vario = (ThermalOf(site, k).strength * 6) \div 10,
               !.altitude = ThermalOf(site, k).top_altitude - 2000] :
        p \in Charged(site), k \in 1..ThermalsPerSite}

InitAscent ==
    /\ clock = 0
    /\ LimiterBuilt
    /\ PoolBuilt
    /\ InitLockFile
    /\ InitRegistration({TRUE}, {TRUE})
    /\ InitFlight(Ascending(1), {"emulator"})
    /\ TelemetryBuilt
    /\ MessagesBuilt
    /\ MainBuilt
    /\ TurnBuilt

\* The distances a climbing device finds itself at: in the core of a wide
\* thermal or far from it, and far from the narrow ones.
ClimbScans ==
    {dist \in [DOMAIN thermals -> {40, 8000}] :
        \A k \in DOMAIN thermals : thermals[k].radius <= 50 => dist[k] = 8000}

TakeOff ==
    \E drain \in HardDrain, gain \in HardGain, climb \in TakeoffVarios :
        simulate_paraglider(TickTakeoff(drain, gain, climb))
           /\ UNCHANGED <<clock, exceptFlight>>
Climb ==
    \E drain \in HardDrain, v \in HardClimbSpeed, decay \in ClimbDecays,
       dist \in ClimbScans, give_up \in BOOLEAN :
        simulate_paraglider(TickClimbing(drain, v, decay, dist, give_up))
           /\ UNCHANGED <<clock, exceptFlight>>
Circle ==
    \E drain \in HardDrain, gain \in ThermalGains, v \in HardThermalSpeed,
       leave \in BOOLEAN, exit_speed \in HardExitSpeed :
        simulate_paraglider(TickThermaling(drain, gain, v, leave, exit_speed))
           /\ UNCHANGED <<clock, exceptFlight>>

NextAscent == TakeOff \/ Climb \/ Circle

SpecAscent == InitAscent /\ [][NextAscent]_vars /\ WF_vars(NextAscent)

\* ------------------------------------ specification: telemetry workers
\* The workers of two of the num_devices devices, from the moment run() has
\* built the pool until every worker has returned.
InitTel ==
    /\ clock = 0
    /\ LimiterBuilt
    /\ InitLockFile
    /\ InitRegistration({FALSE}, {TRUE})
    /\ FlightBuilt
    /\ InitTelemetry(DeviceCounts, DeviceLimits)
    /\ MessagesBuilt
    /\ MainBuilt
    /\ TurnBuilt
    /\ InitPool(PoolsFor(num_devices))

LaunchTel == \E d \in Devices, connects \in BOOLEAN :
                 Launch(d, connects) /\ UNCHANGED exceptTel
WorkerTel == \E d \in Devices : simulate_worker(d) /\ UNCHANGED exceptTel
StopTel == Stop /\ UNCHANGED exceptTel
ElapseTel == Elapse /\ UNCHANGED exceptTel

NextTel == LaunchTel \/ WorkerTel \/ StopTel \/ ElapseTel

SpecTel == InitTel /\ [][NextTel]_vars

\* The same workers under the scheduling the interpreter gives them: a
\* thread that can take a step eventually takes it, and time passes.
FairTel ==
    /\ \A d \in Devices : WF_vars(simulate_worker(d) /\ UNCHANGED exceptTel)
    /\ WF_vars(ElapseTel)

\* For the fair specification the run has dedicated connections: whether a
\* worker leaves its loop does not depend on what it publishes on.
InitTelLive ==
    /\ clock = 0
    /\ LimiterBuilt
    /\ InitLockFile
    /\ InitRegistration({FALSE}, {TRUE})
    /\ FlightBuilt
    /\ InitTelemetry({DEDICATED_LIMIT}, {MAX_DEVICES_PER_INSTANCE})
    /\ MessagesBuilt
    /\ MainBuilt
    /\ TurnBuilt
    /\ InitPool(PoolsFor(num_devices))

SpecTelLive == InitTelLive /\ [][NextTel]_vars /\ FairTel

\* ------------------------------------- specification: telemetry signing
\* Two devices build and publish envelopes, each on its own schedule, on
\* any of the handles of a shared pool.
InitSign ==
    /\ clock = 0
    /\ LimiterBuilt
    /\ PoolBuilt
    /\ InitLockFile
    /\ RegistrationBuilt
    /\ FlightBuilt
    /\ TelemetryBuilt
    /\ InitMessages
    /\ MainBuilt
    /\ TurnBuilt

BuildSign ==
    \E d \in Devices, altitude \in Altitudes, battery \in BatteryLevels,
       phase \in PhaseValues :
        BuildEnvelope(d, altitude, battery, phase) /\ UNCHANGED exceptMsg
PublishSign ==
    \E d \in Devices, h \in Handles :
        PublishEnvelope(d, h) /\ UNCHANGED exceptMsg

NextSign == BuildSign \/ PublishSign

SpecSign == InitSign /\ [][NextSign]_vars

\* -------------------------------- specification: registration payloads
\* Each registrant builds payloads for drawn manufacturers, identifiers and
\* secrets.
ProvisionAny ==
    \E registrant \in Registrants, key \in ManufacturerSecrets,
       manufacturer \in Manufacturers, id \in DeviceIds,
       drawn \in RandomSecrets :
        BuildPayload(registrant, key, manufacturer, id, drawn)
           /\ UNCHANGED exceptMsg

SpecProvision == InitSign /\ [][ProvisionAny]_vars

\* ------------------------------------------------ specification: startup
\* main() from the command line to the first registration, for every
\* command line of ArgSets.
InitStart ==
    /\ clock = 0
    /\ LimiterBuilt
    /\ PoolBuilt
    /\ InitLockFile
    /\ RegistrationBuilt
    /\ FlightBuilt
    /\ TelemetryBuilt
    /\ MessagesBuilt
    /\ InitMain(ArgSets)
    /\ TurnBuilt

ValidateStart == MainValidate /\ UNCHANGED exceptMain /\ UNCHANGED poolVars
ConstructStart == MainConstruct /\ UNCHANGED exceptMain /\ UNCHANGED poolVars
RunStart == MainRunStarts /\ UNCHANGED exceptMain /\ UNCHANGED poolVars

NextStart == ValidateStart \/ ConstructStart \/ RunStart

SpecStart == InitStart /\ [][NextStart]_vars

\* ------------------------------------------------ specification: one run
\* A run of one device, on a dedicated connection, or of
\* MAX_DEVICES_PER_INSTANCE devices, of which the workers of NumDevices are
\* followed, from main() to the exit of the process, with the end of its
\* duration and the signals.
RunArgs ==
    {a \in ArgSets : /\ ~MainRejects(a, MAX_DEVICES_PER_INSTANCE)
                     /\ ~a.force /\ a.duration = 1}

InitLife ==
    /\ clock = 0
    /\ LimiterBuilt
    /\ PoolBuilt
    /\ InitLockFile
    /\ InitRegistration({FALSE}, {TRUE})
    /\ FlightBuilt
    /\ TelemetryBuilt
    /\ MessagesBuilt
    /\ InitMain(RunArgs)
    /\ TurnBuilt

LaunchLife ==
    \E d \in Devices, connects \in BOOLEAN :
        /\ main_pc = "registering"
        /\ d <= num_devices
        /\ Launch(d, connects)
        /\ UNCHANGED exceptTel
WorkerLife == \E d \in Devices : simulate_worker(d) /\ UNCHANGED exceptTel
ElapseLife == Elapse /\ UNCHANGED exceptTel
MonitorLife == MainMonitors /\ UNCHANGED exceptMain /\ UNCHANGED poolVars
StopLife == MainStops /\ UNCHANGED exceptTelMain
DisconnectLife == MainDisconnects /\ UNCHANGED exceptMain /\ UNCHANGED poolVars
GraceLife == MainGrace /\ UNCHANGED exceptMain /\ UNCHANGED poolVars
SummaryLife == MainSummary /\ UNCHANGED exceptMain /\ UNCHANGED poolVars
ReturnLife == MainReturns /\ UNCHANGED exceptMain /\ UNCHANGED poolVars
SignalLife ==
    SignalHandler /\ UNCHANGED exceptMain /\ UNCHANGED poolVars

NextLife ==
    \/ ValidateStart \/ ConstructStart \/ RunStart
    \/ LaunchLife \/ WorkerLife \/ ElapseLife
    \/ MonitorLife \/ StopLife \/ DisconnectLife \/ GraceLife
    \/ SummaryLife \/ ReturnLife \/ SignalLife

SpecLife == InitLife /\ [][NextLife]_vars

\* --------------------------------------------- specification: headings
\* One call of smooth_turn, or one LANDING tick, from every heading.
InitTurnSpec ==
    /\ clock = 0
    /\ LimiterBuilt
    /\ PoolBuilt
    /\ InitLockFile
    /\ RegistrationBuilt
    /\ FlightBuilt
    /\ TelemetryBuilt
    /\ MessagesBuilt
    /\ MainBuilt
    /\ InitTurn(Headings)

CallTurn ==
    \E target \in Bearings, max_turn \in MaxTurns :
        CallSmoothTurn(target, max_turn) /\ UNCHANGED exceptTurn
LandingTurn ==
    \E bearing \in Bearings, gust \in Turbulence :
        LandingHeading(bearing, gust) /\ UNCHANGED exceptTurn

NextTurn == CallTurn \/ LandingTurn

SpecTurn == InitTurnSpec /\ [][NextTurn]_vars

\* ================================================================ claims

\* The edges of the phase graph.
Edges ==
    { <<"GROUND", "TAKEOFF">>, <<"TAKEOFF", "CLIMBING">>,
      <<"CLIMBING", "THERMALING">>, <<"CLIMBING", "GLIDING">>,
      <<"THERMALING", "GLIDING">>, <<"GLIDING", "LANDING">>,
      <<"LANDING", "LANDED">>, <<"LANDED", "GROUND">> }

\* C1: every tick leaves the phase as it was or follows one of the eight
\* edges of the phase graph, and the device enters LANDED between any two of
\* its GROUND->TAKEOFF transitions.
C1_PhaseEdges ==
    [][ /\ para'.phase \in Phases
        /\ para'.phase # para.phase => <<para.phase, para'.phase>> \in Edges
        /\ takeoffs_since_landed' <= 1 ]_vars

\* A device that touched down, packed up, went back to GROUND and took off
\* again within this run.
C1_Witness ==
    /\ para.phase = "TAKEOFF"
    /\ takeoffs_since_landed = 1
    /\ touch_alt # 0
    /\ ticks >= 3

\* C2: the battery never increases from one tick to the next, in any phase
\* and on any transition, the LANDED->GROUND reset included.
C2_BatteryNeverIncreases ==
    [][para'.battery <= para.battery]_vars

\* A device back on GROUND at its launch after the LANDED->GROUND reset, with
\* less battery than it had when landed.
C2_Witness ==
    /\ para.phase = "GROUND"
    /\ para.altitude = FLYING_SITES[para.site].alt
    /\ ticks > 0
    /\ para.battery < 502

\* C3: a device in LANDING whose worker keeps ticking reaches LANDED, for
\* every sequence of draws and at both update intervals.
C3_LandingReachesLanded ==
    (para.phase = "LANDING") ~> (para.phase = "LANDED")

\* A touchdown at the 1 s interval after a long approach, one that entered
\* LANDING in weak lift and first climbed.
C3_Witness ==
    /\ para.phase = "LANDED"
    /\ ~safe_mode
    /\ ticks >= 80

\* C4: a LANDING tick that integrates the altitude to or below the landing
\* altitude ends in LANDED at exactly the landing altitude with speed and
\* vario 0, and without the position integration; one that stays above it
\* ends in LANDING at the integrated altitude.
C4_TouchdownSnaps ==
    [][ para.phase = "LANDING" /\ ticks' = ticks + 1 =>
          IF touch_alt' <= FLYING_SITES[para.site].land_alt
             THEN /\ para'.phase = "LANDED"
                  /\ para'.altitude = FLYING_SITES[para.site].land_alt
                  /\ para'.speed = 0
                  /\ para'.vario = 0
                  /\ ~pos_integrated'
             ELSE /\ para'.phase = "LANDING"
                  /\ para'.altitude = touch_alt'
                  /\ pos_integrated' ]_vars

\* A touchdown whose tick integrated the altitude to below the landing
\* altitude.
C4_Witness ==
    /\ para.phase = "LANDED"
    /\ touch_alt < FLYING_SITES[para.site].land_alt
    /\ para.altitude = FLYING_SITES[para.site].land_alt
    /\ ~pos_integrated

\* C5: for every R >= 1 and every interleaving of threads calling
\* wait_if_needed, no window of one second (w - 1s, w] holds more than R
\* recorded acquisitions.
C5_AtMostRPerWindow ==
    \A w \in 0..MaxTime :
        Cardinality({i \in DOMAIN rl_log :
                        /\ rl_log[i].stamp > w - TicksPerSecond
                        /\ rl_log[i].stamp <= w}) <= max_requests

\* C5 witness: more calls than R have completed and one of them had to sleep.
C5_Witness ==
    /\ Len(rl_log) > max_requests
    /\ \E i \in DOMAIN rl_log : rl_log[i].slept

\* C6: a call that finds fewer than R timestamps in the trailing second
\* returns without sleeping; one that finds R returns no earlier than one
\* second after the oldest of them; with R = 2, when the first two calls
\* complete at t = 0 the third completes at t >= 1 s.
C6_SleepOnlyWhenFull ==
    /\ \A i \in DOMAIN rl_log :
          /\ rl_log[i].seen < max_requests => ~rl_log[i].slept
          /\ rl_log[i].seen >= max_requests =>
                rl_log[i].stamp >= rl_log[i].oldest + TicksPerSecond
    /\ (/\ max_requests = 2
        /\ Len(rl_log) >= 3
        /\ rl_log[1].stamp = 0
        /\ rl_log[2].stamp = 0)
          => /\ ~rl_log[1].slept
             /\ ~rl_log[2].slept
             /\ rl_log[3].stamp >= TicksPerSecond

\* C6 witness: R = 2, two calls completed at t = 0 and a third has completed.
C6_Witness ==
    /\ max_requests = 2
    /\ Len(rl_log) >= 3
    /\ rl_log[1].stamp = 0
    /\ rl_log[2].stamp = 0
    /\ rl_log[3].slept

\* C7: get_pool_client is strictly round-robin in lock order: the i-th call
\* returns handle i mod K, so any K consecutive calls return each handle once;
\* on an empty pool it returns None and leaves the index unchanged.
C7_RoundRobin ==
    LET K == Len(mqtt_pool)
    IN  IF K = 0
        THEN /\ pool_index = 0
             /\ \A i \in DOMAIN pool_served : pool_served[i] = None
        ELSE /\ pool_index = Len(pool_served)
             /\ \A i \in DOMAIN pool_served :
                   pool_served[i] = mqtt_pool[((i - 1) % K) + 1]
             /\ \A j \in DOMAIN pool_served :
                   j + K - 1 <= Len(pool_served) =>
                      {pool_served[i] : i \in j..(j + K - 1)}
                         = {mqtt_pool[k] : k \in 1..K}

\* C7 witness: a pool of at least two handles has been round the rotation
\* more than once.
C7_Witness ==
    /\ Len(mqtt_pool) >= 2
    /\ Len(pool_served) > Len(mqtt_pool)

\* C8: at most one instance at a time has acquired the instance lock and not
\* yet released it.
C8_SingleHolder ==
    Cardinality({p \in Instances : HoldsInstanceLock(p)}) <= 1

\* C9: register_and_start calls register_device at most 3 times per ordinal,
\* stops at the first call that returns credentials, sleeps one backoff of
\* 1..2 s after each failed call except the last, and reports the ordinal as
\* failed only after 3 failed calls.
C9_BoundedRetries ==
    \A w \in RegWorkers :
        /\ reg_calls[w] <= max_retries
        /\ \A i \in DOMAIN reg_backoffs[w] :
              /\ reg_backoffs[w][i] >= TicksPerSecond
              /\ reg_backoffs[w][i] <= 2 * TicksPerSecond
        /\ Len(reg_backoffs[w]) = IF reg_fails[w] < max_retries
                                     THEN reg_fails[w] ELSE max_retries - 1
        /\ reg_pc[w] = "registered" =>
              /\ reg_fails[w] = reg_calls[w] - 1
              /\ ~ENABLED RegisterCall(w)
        /\ reg_pc[w] = "failed" =>
              /\ reg_calls[w] = max_retries
              /\ reg_fails[w] = max_retries

\* C9 witness: an ordinal has been given up after its third failed call, and
\* had slept twice.
C9_Witness ==
    \E w \in RegWorkers :
        /\ reg_pc[w] = "failed"
        /\ reg_calls[w] = 3
        /\ Len(reg_backoffs[w]) = 2

\* C10: one call of register_device sends at most two registration requests
\* (the request and, after a 400, one retry whose outcome is final).
C10_AtMostTwoRequests ==
    \A w \in RegWorkers : reg_sent[w] <= 2

\* How far worker w is inside one attempt of register_and_start, and inside
\* wait_if_needed.
RegPosition(w) ==
    CASE reg_pc[w] = "loop" -> 0
      [] reg_pc[w] = "request" -> 1 + reg_depth[w]
      [] OTHER -> MaxDepth + 2

LimiterStage(w) ==
    CASE rl_pc[w] = "call" -> 3
      [] rl_pc[w] = "sleep" -> 2
      [] rl_pc[w] \in {"slept", "append"} -> 1
      [] OTHER -> 0

\* What is left of the registration of worker w's ordinal: 0 once it has an
\* outcome.
RegRank(w) ==
    IF reg_pc[w] \in {"registered", "failed"}
       THEN 0
       ELSE 1 + LimiterStage(w)
              + 4 * ((max_retries - reg_attempt[w]) * (MaxDepth + 3)
                     - RegPosition(w))

\* Worker w can take a step, or waits for the clock or for the limiter lock.
RegCanProceed(w) ==
    \/ ENABLED register_and_start(w)
    \/ ENABLED wait_if_needed(w)
    \/ reg_pc[w] = "backoff" /\ clock < reg_wake[w]
    \/ rl_pc[w] = "sleep" /\ clock < rl_wake[w]
    \/ rl_pc[w] = "call" /\ rl_lock # 0

Registered == {w \in Ordinals : reg_pc[w] = "registered"}

C13_LimiterBeforeEachRequest ==
    [][ \A w \in RegWorkers :
          IF safe_mode
             THEN /\ reg_sent'[w] = reg_sent[w] + 1 =>
                        /\ rl_pc[w] = "idle"
                        /\ Len(rl_log) >= reg_sent[w] + 1
                  /\ reg_pc'[w] = "request"
                        /\ (reg_pc[w] = "loop" \/ reg_sent'[w] = reg_sent[w] + 1)
                        => rl_pc'[w] = "call"
             ELSE /\ rl_pc'[w] = "idle"
                  /\ rl_calls' = 0
                  /\ rl_log' = <<>> ]_vars

\* In safe mode, the disambiguated retry of a second call has been sent: three
\* requests, three recorded acquisitions.
C13_Witness ==
    \E w \in RegWorkers :
        /\ safe_mode
        /\ reg_calls[w] = 2
        /\ reg_sent[w] = 2
        /\ Len(rl_log) = 3

C15_OneKindOfTransport ==
    \A d \in Devices :
        /\ dev_client[d] \in {NoClient, OwnClient(d)}
        /\ \/ published_on[d] \subseteq {OwnClient(d)}
           \/ published_on[d] \subseteq PoolClients
        /\ \A e \in Devices \ {d} : OwnClient(d) \notin published_on[e]
        /\ closed_by[d] \cap PoolClients = {}
        /\ dev_client[d] = NoClient => closed_by[d] = {}

\* A pooled session has published on two connections of the pool and its
\* worker has returned.
C15_Witness ==
    \E d \in Devices :
        /\ wk_pc[d] = "exited"
        /\ Cardinality(published_on[d]) = 2
        /\ published_on[d] \subseteq PoolClients

\* Every broker connection the run asked for was established: the device's
\* dedicated one if it was asked for, and the whole pool if run() built one.
BrokerConnectionsSucceed(d) ==
    /\ ~connect_failed[d]
    /\ CreatesPool(num_devices) => Len(mqtt_pool) = MaxPool

\* C16: for every device count the default limit accepts, and with every
\* broker connection established, each tick of an active device reaches a
\* publish call: send_gps_update never returns for want of a client.
C16_EveryTickPublishes ==
    [][\A d \in Devices :
          (/\ Accepted(num_devices, MAX_DEVICES_PER_INSTANCE)
           /\ BrokerConnectionsSucceed(d)
           /\ wk_active[d]
           /\ wk_pc[d] = "send"
           /\ wk_pc'[d] # "send") => wk_pc'[d] = "publish"]_vars

\* C17 as stated: the worker of a device whose dedicated connection failed
\* exits early, that is without running a tick, and publishes nothing.
C17_FailedConnectExitsEarly ==
    \A d \in Devices :
        connect_failed[d] =>
            /\ wk_pc[d] \in {"loop", "exited"}
            /\ wk_ticks[d] = 0
            /\ published_on[d] = {}

\* C17, amended: a device whose dedicated connection failed has no client
\* and never reaches a publish call, although its worker ticks like any
\* other; a device whose own connection succeeded keeps its client.
C17_FailedConnectSilent ==
    \A d \in Devices :
        /\ connect_failed[d] =>
              /\ dev_client[d] = NoClient
              /\ published_on[d] = {}
              /\ wk_pc[d] \notin {"publish", "count", "counting"}
        /\ (/\ wk_pc[d] # "unborn"
            /\ ~UsesSharedPublishing(num_devices)
            /\ ~connect_failed[d]) => dev_client[d] = OwnClient(d)

\* The worker of a device whose connection failed has run all its ticks
\* and sleeps, while the other device has published on its own client.
C17_Witness ==
    \E d \in Devices, e \in Devices :
        /\ connect_failed[d]
        /\ wk_ticks[d] = MaxTelTicks
        /\ wk_pc[d] = "sleep"
        /\ published_on[e] = {OwnClient(e)}

\* C18: a publish that raises or returns a non-success code leaves the
\* session active and its battery reading, its tick count and
\* total_points_sent as they were, and hands the worker to the battery
\* check; from there a worker whose battery is not depleted goes to its
\* sleep, still active, and so to the next evaluation of its loop.
C18_FailedPublishGoesOn ==
    [][\A d \in Devices :
          /\ (/\ wk_pc[d] = "publish"
              /\ wk_pc'[d] # "publish"
              /\ pub_ok' = pub_ok) =>
                 /\ wk_pc'[d] = "check"
                 /\ wk_active'[d]
                 /\ wk_low'[d] = wk_low[d]
                 /\ wk_ticks'[d] = wk_ticks[d]
                 /\ total_points_sent' = total_points_sent
          /\ (/\ wk_pc[d] = "check"
              /\ wk_pc'[d] # "check"
              /\ ~wk_low[d]) =>
                 /\ wk_pc'[d] = "sleep"
                 /\ wk_active'[d]]_vars

\* A device whose first publish failed (no publish has succeeded yet and
\* the other device has made none) is at the publish call of its second
\* tick.
C18_Witness ==
    \E d \in Devices :
        /\ wk_ticks[d] = 2
        /\ wk_pc[d] = "publish"
        /\ published_on[d] # {}
        /\ pub_ok = 0
        /\ \A e \in Devices \ {d} : published_on[e] = {}

\* The workers whose publish succeeded and whose increment is still to be
\* written.
Counting == {d \in Devices : wk_pc[d] \in {"count", "counting"}}

\* C19: under every interleaving total_points_sent is the number of
\* publish calls that returned success, less those whose increment is
\* still under way (none lost, none counted twice); a throughput sample is
\* taken only a second or more after the previous one; and
\* last_throughput_count never exceeds total_points_sent.
C19_CounterConsistent ==
    /\ total_points_sent + Cardinality(Counting) = pub_ok
    /\ sampled_age # -1 => SampleDue(sampled_age)
    /\ last_throughput_count <= total_points_sent
    /\ current_throughput[1] <= total_points_sent

\* Two workers are at the counter at once, one inside the lock and one
\* waiting for it, after an earlier increment took a throughput sample.
C19_Witness ==
    \E d \in Devices, e \in Devices :
        /\ wk_pc[d] = "counting"
        /\ wk_pc[e] = "count"
        /\ total_points_sent >= 1
        /\ sampled_age # -1

\* C20: once running is false a worker runs at most the one tick it had
\* entered before it next evaluates its loop condition and starts at most
\* one sleep, of one update interval; and every launched worker eventually
\* returns.
C20_WorkersStop ==
    /\ [](\A d \in Devices :
             /\ ticks_after_stop[d] <= 1
             /\ sleeps_after_stop[d] <= 1
             /\ wk_timer[d] <= SleepTicks)
    /\ \A d \in Devices :
          (~running /\ wk_pc[d] # "unborn") ~> (wk_pc[d] = "exited")

\* After the stop a worker ran the tick it was in, slept once, and has
\* returned, and no launched worker is still running.
C20_Witness ==
    /\ ~running
    /\ \E d \in Devices :
          /\ wk_pc[d] = "exited"
          /\ ticks_after_stop[d] = 1
          /\ sleeps_after_stop[d] = 1
    /\ \A d \in Devices : wk_pc[d] \in {"unborn", "exited"}

\* C23: a worker that finds the battery under the cutoff after a tick marks
\* the session inactive and returns, closing the device's own client if it
\* has one; an inactive session stays inactive, and nothing of it changes
\* any more: no tick, no publish, no further close.
C23_DepletedSessionEnds ==
    [][\A d \in Devices :
          /\ (wk_pc[d] = "check" /\ wk_low[d] /\ wk_pc'[d] # "check") =>
                /\ ~wk_active'[d]
                /\ wk_pc'[d] = "exited"
                /\ closed_by'[d] = IF dev_client[d] = NoClient THEN {}
                                   ELSE {dev_client[d]}
          /\ ~wk_active[d] =>
                /\ ~wk_active'[d]
                /\ wk_pc'[d] = "exited"
                /\ wk_pc[d] = "exited"
                /\ wk_ticks'[d] = wk_ticks[d]
                /\ published_on'[d] = published_on[d]
                /\ closed_by'[d] = closed_by[d]]_vars

\* A session with its own client went inactive on its first tick and the
\* other device has published since.
C23_Witness ==
    \E d \in Devices, e \in Devices :
        /\ ~wk_active[d]
        /\ wk_ticks[d] = 1
        /\ closed_by[d] = {OwnClient(d)}
        /\ wk_ticks[e] = 2
        /\ wk_pc[e] = "count"

\* C24: a tick of a device in GROUND either takes off, and then ends with
\* phase TAKEOFF, speed 25, vertical speed 2.0 and the altitude it had, or
\* it does not, and then ends in GROUND with the altitude and the vertical
\* speed it had.
C24_GroundTick ==
    [][(para.phase = "GROUND" /\ ticks' = ticks + 1) =>
          IF para'.phase = "TAKEOFF"
             THEN /\ para'.speed = 25
                  /\ para'.vario = 20
                  /\ para'.altitude = para.altitude
             ELSE /\ para'.phase = "GROUND"
                  /\ para'.altitude = para.altitude
                  /\ para'.vario = para.vario]_vars

\* A device that was constructed on the ground has taken off on its tick.
C24_Witness ==
    /\ para.phase = "TAKEOFF"
    /\ para.speed = 25
    /\ para.vario = 20
    /\ ticks = 1
    /\ takeoffs_since_landed = 1

\* C27: when an instance is refused the lock that a running instance
\* holds, the lock file it then reads still carries the PID the holder
\* wrote.
C27_RefusalNamesHolder ==
    [][\A q \in Instances :
          (inst_pc[q] = "opened" /\ inst_pc'[q] = "refused") =>
             LET holder == inode_lock[inst_fd[q]]
             IN  inst_pc[holder] = "running" =>
                    /\ path_inode # 0
                    /\ inode_text[path_inode] = holder]_vars

\* The thermals that qualify in the scan a CLIMBING tick has just made:
\* nearer than their radius and with their top above the device.
Qualifying ==
    {k \in DOMAIN scan_dist' :
        /\ scan_dist'[k] < thermals[k].radius
        /\ para'.altitude < thermals[k].top_altitude}

\* C30: a CLIMBING tick ends in THERMALING only if some thermal qualifies,
\* and the thermal it binds is then the nearest of those that qualify.
C30_BindsNearestThermal ==
    [][(para.phase = "CLIMBING" /\ ticks' = ticks + 1) =>
          /\ para'.phase = "THERMALING" => Qualifying # {}
          /\ para'.phase = "THERMALING" =>
                /\ para'.thermal \in Qualifying
                /\ \A j \in Qualifying :
                      scan_dist'[para'.thermal] <= scan_dist'[j]]_vars

\* C25: every published envelope carries the signature computed from the
\* canonical serialization of its own data field and the secret of the
\* device that published it, names that device in its data, and went out
\* on that device's topic, whatever handle it shared; and two published
\* signatures are equal exactly when data and secret are.
C25_SignatureBindsPayload ==
    /\ \A w \in wire :
          /\ w.envelope.signature =
                Hmac(DeviceSecretOf(w.by), Canonical(w.envelope.data))
          /\ w.envelope.data.device_id = DeviceIdOf(w.by)
          /\ w.topic = Topic(w.envelope.data.device_id)
    /\ \A v \in wire, w \in wire :
          (v.envelope.signature = w.envelope.signature) <=>
             /\ v.envelope.data = w.envelope.data
             /\ DeviceSecretOf(v.by) = DeviceSecretOf(w.by)

\* Both devices have published on one and the same handle, with the same
\* altitude reading and different metadata, while a third envelope is
\* waiting to be published.
C25_Witness ==
    \E v \in wire, w \in wire :
        /\ v.by # w.by
        /\ v.handle = w.handle
        /\ v.envelope.data.altitude = w.envelope.data.altitude
        /\ v.envelope.data.device_metadata # w.envelope.data.device_metadata
        /\ \E d \in Devices : outbox[d] # <<>>

\* C26: in every registration payload the token is the HMAC, keyed by the
\* manufacturer secret, of manufacturer:device_id:device_secret in that
\* order, with the values the payload carries; and the manufacturer secret
\* is not a field of the payload.
C26_TokenOverPayloadFields ==
    \A p \in provisioned :
        /\ p.payload.registration_token =
              Hmac(p.key, Join(p.payload.manufacturer, p.payload.device_id,
                               p.payload.device_secret))
        /\ \A f \in DOMAIN p.payload : p.payload[f] # p.key

\* A configuration whose device count or duration is out of bounds.
BadBounds(a, limit) ==
    \/ a.devices < 1
    \/ a.devices > limit
    \/ a.duration < 1
    \/ a.duration > MAX_DURATION_MINUTES

C29_ForceOverridesLimit ==
    (/\ args.force
     /\ args.devices > max_devices
     /\ ~MainRejects(args, max_devices)) => exit_status # 1

\* C21: during shutdown the grace period that follows clearing the running
\* flag has elapsed before the orchestrator disconnects the first
\* transport, dedicated or pooled.
C21_GraceBeforeDisconnect == main_closed # {} => grace_done

\* C22: the stages of a run are entered in the order INIT, REGISTERING,
\* RUNNING, DRAINING, TERMINATED, the run summary is written at most once,
\* and a run that got past INIT has, when the process has exited, whether
\* at the end of the duration or on a signal, passed every stage and
\* written the summary exactly once.
C22_LifecycleAndSummary ==
    /\ Len(life) <= Len(Stages)
    /\ \A i \in 1..Len(life) : life[i] = Stages[i]
    /\ summaries <= 1
    /\ (run_started /\ main_pc = "exited") =>
           /\ life = Stages
           /\ summaries = 1

\* C31: a THERMALING tick of a device with a bound thermal leaves the
\* position at the thermal's center plus the polar offset: the position
\* integration along heading and speed, with its wind drift, is not run in
\* that tick.
C31_ThermalingBypassesIntegration ==
    [][(para.phase = "THERMALING" /\ para.thermal # 0) => ~pos_integrated']_vars

\* C32: at the end of every tick the flight-session id is absent if and
\* only if the phase is GROUND, a tick changes it only on GROUND->TAKEOFF,
\* to a value not used before, and on LANDED->GROUND, to none, and the
\* telemetry message built after the tick carries it.
C32_FlightIdFollowsFlights ==
    [][/\ (flight_id' = None) <=> (para'.phase = "GROUND")
       /\ GpsFlightId' = flight_id'
       /\ flight_id' # flight_id =>
             \/ /\ para.phase = "GROUND" /\ para'.phase = "TAKEOFF"
                /\ flight_id' > uuids
             \/ /\ para.phase = "LANDED" /\ para'.phase = "GROUND"
                /\ flight_id' = None]_vars

\* The shortest angular distance between two headings.
AngularDistance(a, b) == Min((a - b) % 360, (b - a) % 360)

C34_CushionedDescent ==
    [][para.phase = "LANDING" =>
          /\ para'.phase = "LANDING" => para'.speed >= 18
          /\ para'.vario >= -40
          /\ para.altitude < FLYING_SITES[para.site].land_alt + 200 =>
                /\ para.altitude - para'.altitude <= 20 * UpdateInterval
                /\ para'.vario >= -20]_vars

\* The part of a device's flight state that the run follows: para.active,
\* whether the battery is under the cutoff, and the ticks made.
FlightStateOf(d) == <<wk_active[d], wk_low[d], wk_ticks[d]>>

\* C35: a device's session is handed to a simulation worker once, the
\* worker goes through the loop of simulate_paraglider one statement after
\* the other, and a step that writes the device's flight state is a step of
\* that worker inside its tick or its battery check: it is not a step of
\* the main thread (registration, statistics, shutdown, signal handler)
\* nor of another device's worker.
C35_SingleWriter ==
    [][\A d \in Devices :
          /\ (wk_pc'[d] # wk_pc[d] /\ wk_pc'[d] = "loop") =>
                wk_pc[d] \in {"unborn", "sleep"}
          /\ wk_pc[d] # "unborn" => wk_pc'[d] # "unborn"
          /\ FlightStateOf(d)' # FlightStateOf(d) =>
                /\ wk_pc[d] \in {"tick", "check"}
                /\ wk_pc'[d] # wk_pc[d]
                /\ main_pc' = main_pc
                /\ running' = running
                /\ \A e \in Devices \ {d} :
                      /\ wk_pc'[e] = wk_pc[e]
                      /\ FlightStateOf(e)' = FlightStateOf(e)]_vars

\* Both workers have ticked, one has found its battery depleted and has
\* marked its session inactive, and the main thread has gone on to the
\* shutdown while the other session is still active.
C35_Witness ==
    /\ \A d \in Devices : wk_ticks[d] > 0
    /\ \E d \in Devices : ~wk_active[d]
    /\ \E d \in Devices : wk_active[d] /\ wk_pc[d] # "exited"
    /\ main_pc \in {"stopping", "grace", "summary"}

\* C36: no thread holds the RateLimiter mutex while it waits for a
\* rate-limit slot, so a thread that waits never keeps another caller of
\* wait_if_needed out of the critical section.
C36_NoWaitUnderLimiterLock ==
    \A t \in Threads :
        rl_pc[t] = "sleep" =>
            /\ rl_lock # t
            /\ \A u \in Threads \ {t} : rl_pc[u] = "call" => rl_lock = 0

\* C37: at the end of every tick a thermal is bound if and only if the
\* phase is THERMALING; a tick binds one only on CLIMBING->THERMALING and
\* unbinds it only on THERMALING->GLIDING; a THERMALING tick raises the
\* altitude, and goes to GLIDING whenever the new altitude is above the top
\* of the bound thermal.
C37_ThermalBoundIffThermaling ==
    /\ [](para.thermal # 0 <=> para.phase = "THERMALING")
    /\ [][/\ (para.thermal = 0 /\ para'.thermal # 0) =>
                para.phase = "CLIMBING" /\ para'.phase = "THERMALING"
          /\ (para.thermal # 0 /\ para'.thermal # para.thermal) =>
                /\ para.phase = "THERMALING" /\ para'.phase = "GLIDING"
                /\ para'.thermal = 0
          /\ para.phase = "THERMALING" =>
                /\ para'.altitude > para.altitude
                /\ para'.altitude > thermals[para.thermal].top_altitude =>
                      para'.phase = "GLIDING"]_vars

\* A device that climbed into a thermal has circled in it and has left it
\* above its top, unbound.
C37_Witness ==
    /\ para.phase = "GLIDING"
    /\ para.thermal = 0
    /\ ticks > 0
    /\ \E k \in DOMAIN thermals : para.altitude > thermals[k].top_altitude

\* C38: no worker calls publish on a handle that the orchestrator's drain
\* has already disconnected, and no dedicated handle is disconnected both
\* by its worker's cleanup and by the orchestrator's drain.
C38_NoUseAfterDisconnect ==
    /\ [](\A d \in Devices : closed_by[d] \cap main_closed = {})
    /\ [][\A d \in Devices :
             (wk_pc[d] = "publish" /\ wk_pc'[d] # "publish") =>
                 wk_pick[d] \notin main_closed]_vars

\* C39: at every site and at either update interval the altitude at the
\* end of every tick is at or above the site's landing altitude; a GLIDING
\* tick that ends below landing altitude + 200 m hands over to LANDING
\* while still above the landing altitude, and a LANDING tick that
\* integrates to the landing altitude or below ends at exactly that
\* altitude, LANDED.
C39_NeverBelowLandingAltitude ==
    /\ [](para.altitude >= FLYING_SITES[para.site].land_alt)
    /\ [][/\ (/\ para.phase = "GLIDING"
              /\ para'.altitude < FLYING_SITES[para.site].land_alt + 2000) =>
                 /\ para'.phase = "LANDING"
                 /\ para'.altitude > FLYING_SITES[para.site].land_alt
          /\ (/\ para.phase = "LANDING"
              /\ touch_alt' <= FLYING_SITES[para.site].land_alt) =>
                 /\ para'.phase = "LANDED"
                 /\ para'.altitude = FLYING_SITES[para.site].land_alt]_vars

\* At the 5 s interval, at the site with the lowest landing field, a
\* LANDING tick has integrated the altitude to below the landing altitude
\* and the device stands on it.
C39_Witness ==
    /\ safe_mode
    /\ \A site \in Sites :
          FLYING_SITES[para.site].land_alt <= FLYING_SITES[site].land_alt
    /\ para.phase = "LANDED"
    /\ ticks > 0
    /\ touch_alt < FLYING_SITES[para.site].land_alt
    /\ para.altitude = FLYING_SITES[para.site].land_alt

\* C40: a device that keeps being ticked leaves each of TAKEOFF, CLIMBING
\* and THERMALING, whatever the draws: a TAKEOFF tick raises the altitude
\* by at least 1.5 * dt and ends in CLIMBING once it is above launch + 50 m;
\* a CLIMBING tick lowers the vertical speed by at least 0.1, down to its
\* floor of -2, and ends in THERMALING or GLIDING once it is below -1; a
\* THERMALING tick raises the altitude and ends in GLIDING once it is above
\* the top of the thermal.
C40_AscentPhasesEnd ==
    /\ \A phase \in {"TAKEOFF", "CLIMBING", "THERMALING"} :
          (para.phase = phase) ~> (para.phase # phase)
    /\ [][/\ para.phase = "TAKEOFF" =>
                /\ para'.altitude >= para.altitude + 15 * UpdateInterval
                /\ para'.altitude > FLYING_SITES[para.site].alt + 500 =>
                      para'.phase = "CLIMBING"
          /\ para.phase = "CLIMBING" =>
                /\ para'.vario <= para.vario - 1 \/ para'.vario = -20
                /\ para'.vario < -10 => para'.phase \in {"THERMALING", "GLIDING"}
          /\ para.phase = "THERMALING" =>
                /\ para'.altitude > para.altitude
                /\ para'.altitude > thermals[para.thermal].top_altitude =>
                      para'.phase = "GLIDING"]_vars

\* A device that took off has climbed, has sunk at less than 1 m/s
\* without leaving CLIMBING, and is now gliding with a vertical speed
\* below -1 m/s, still active.
C40_Witness ==
    /\ para.phase = "GLIDING"
    /\ para.vario < -10
    /\ para.thermal = 0
    /\ takeoffs_since_landed = 1
    /\ ticks > 10
    /\ active

====
